---- MODULE Spec2Model ----
(***************************************************************************)
(* Verification model of terry-form-mcp: the sandboxed Terraform execution *)
(* gateway (path sandbox, command policy, request validator, execution     *)
(* engine, batch gateway).                                                 *)
(*                                                                         *)
(* The module holds several specifications over one set of variables; each *)
(* specification drives one component and leaves the other components'     *)
(* variables at their idle values.                                         *)
(*   SpecPath     the path sandbox functions                               *)
(***************************************************************************)
EXTENDS Integers, Sequences, FiniteSets, TLC

VARIABLES
    \* ---- path sandbox ----
    links,      \* symlink table of the filesystem: absolute path -> absolute target
    pathArg,    \* the caller's path argument
    pathFn,     \* which sandbox function has been applied ("none" before the call)
    pathRet     \* what it returned

VARIABLES
    \* ---- execution engine ----
    environ,    \* the ambient environment of the server process: name -> value
    fs,         \* the directories that exist: canonical path -> set of file names
    inv,        \* the engine invocations: id -> record (see NewRun)
    spawned,    \* every child process created so far, in order
    fsLog       \* every file creation and deletion made so far, in order

VARIABLES
    \* ---- request validator ----
    valReq,     \* the request under validation
    valFn,      \* which validation function has been applied ("none" before)
    valRet,     \* its verdict
    sanitized   \* the mapping sanitize_params returned

pathVars == <<links, pathArg, pathFn, pathRet>>
engVars == <<environ, fs, inv, spawned, fsLog>>
VARIABLES
    \* ---- gateway ----
    gw,                 \* the gateway invocation (see NewGw)
    request_validator,  \* server_enhanced_with_lsp.request_validator: "loaded" or "None"
    REPO_HANDLER        \* server_mcp_only.REPO_HANDLER: "handler" or "None"

VARIABLES
    \* ---- result parser ----
    parseIn,    \* the parser's input: [plan_exists, show, doc, stdout]
    parseFn,    \* which parsing function has been applied ("none" before)
    parseRet    \* what it returned

valVars == <<valReq, valFn, valRet, sanitized>>
gwVars == <<gw, request_validator, REPO_HANDLER>>
parseVars == <<parseIn, parseFn, parseRet>>
VARIABLES
    \* ---- tools of the enhanced server and the LSP client singleton ----
    toolCall,    \* the tool call (see NewTool)
    lsp_client,  \* terraform_lsp_client._lsp_client: "None" or the id of a client
    lspClients,  \* the TerraformLSPClient objects made so far: id -> record
    lspCalls     \* the calls of get_lsp_client: id -> record

toolVars == <<toolCall, lsp_client, lspClients, lspCalls>>

vars == <<pathVars, engVars, valVars, gwVars, parseVars, toolVars>>

\* what an engine step and a gateway step leave alone outside their component
engFrame == <<links, pathArg, pathFn, pathRet, valVars, gwVars, parseVars, toolVars>>
gwFrame == <<pathArg, pathFn, pathRet, valVars, parseVars, toolVars>>

\* Python's None where a path is expected.
NoPath == [scheme |-> "None", abs |-> FALSE, comps |-> <<>>]

(***************************************************************************)
(* Generic helpers                                                         *)
(***************************************************************************)
SeqsUpTo(S, n) == UNION {[1..k -> S] : k \in 0..n}

IsPrefix(p, q) == Len(p) <= Len(q) /\ SubSeq(q, 1, Len(p)) = p

(***************************************************************************)
(* PATH SANDBOX                                                            *)
(* A path is a record: scheme ("none", "github", "workspace"), abs (the    *)
(* string starts with '/'), comps (the '/'-separated components).          *)
(***************************************************************************)
MaxPathLen == 3
MaxLinkHops == 4

PathNames == {"..", "etc", "mnt", "workspace", "proj", "out", "in", "data"}

WORKSPACE_ROOT == <<"mnt", "workspace">>

\* Filesystems the sandbox is exercised on.  All link targets are absolute
\* and the tables are acyclic.
\*   out  -> /etc                  a link inside the workspace that leaves it
\*   in   -> /mnt/workspace/proj   a link that stays inside
\*   /mnt/workspace -> /data       the workspace root itself is a link
LinkTables ==
    { [p \in {} |-> <<>>],
      (<<"mnt", "workspace", "out">> :> <<"etc">>) @@
      (<<"mnt", "workspace", "in">> :> <<"mnt", "workspace", "proj">>),
      (<<"mnt", "workspace">> :> <<"data">>) @@
      (<<"data", "out">> :> <<"etc">>) @@
      (<<"data", "in">> :> <<"data", "proj">>) }

Parent(p) == IF p = <<>> THEN <<>> ELSE SubSeq(p, 1, Len(p) - 1)

\* Path.resolve() (non-strict realpath): walks the components left to
\* right, '..' steps to the parent, a component that names a symlink is
\* replaced by the link's target, a missing component is kept as it is.
RECURSIVE RealPath(_, _, _, _)
RealPath(cur, rest, lnk, hops) ==
    IF rest = <<>> THEN cur
    ELSE LET c == Head(rest)
             n == Append(cur, c)
         IN  IF c = ".." THEN RealPath(Parent(cur), Tail(rest), lnk, hops)
             ELSE IF n \in DOMAIN lnk
                  THEN IF hops = 0 THEN <<"ELOOP">>
                       ELSE RealPath(<<>>, lnk[n] \o Tail(rest), lnk, hops - 1)
                  ELSE RealPath(n, Tail(rest), lnk, hops)

resolve(p, lnk) == RealPath(<<>>, p, lnk, MaxLinkHops)

\* Path.relative_to(other) raises ValueError unless other is a prefix.
relative_to(p, base) == IsPrefix(base, p)

\* "if path.startswith('/'): Path(path) else: workspace_base / path"
target_path(path) ==
    IF path.abs THEN path.comps ELSE WORKSPACE_ROOT \o path.comps

HasScheme(path) == path.scheme \in {"github", "workspace"}

AbsPath(comps) == [scheme |-> "none", abs |-> TRUE, comps |-> comps]

\* Mutant: the containment test is made on the lexical path (only '..'
\* collapsed), symlinks are not followed.
validate_and_normalize_path_lexical(path, lnk) ==
    IF HasScheme(path) THEN path
    ELSE LET lex == resolve(target_path(path), [p \in {} |-> <<>>])
         IN  IF relative_to(lex, WORKSPACE_ROOT) THEN AbsPath(lex) ELSE NoPath

\* server_mcp_only.validate_and_normalize_path: the normalized path, or
\* None when it is invalid.
validate_and_normalize_path(path, lnk) ==
    IF HasScheme(path) THEN path
    ELSE LET real_path == resolve(target_path(path), lnk)
         IN  IF relative_to(real_path, resolve(WORKSPACE_ROOT, lnk))
             THEN AbsPath(real_path)
             ELSE NoPath

\* server_enhanced_with_lsp.validate_safe_path: TRUE when the path is safe.
validate_safe_path(path, lnk) ==
    IF HasScheme(path) THEN TRUE
    ELSE relative_to(resolve(target_path(path), lnk), resolve(WORKSPACE_ROOT, lnk))

PlainPaths ==
    { [scheme |-> "none", abs |-> a, comps |-> c] :
        a \in BOOLEAN, c \in SeqsUpTo(PathNames, MaxPathLen) }

SchemePaths ==
    { [scheme |-> s, abs |-> FALSE, comps |-> c] :
        s \in {"github", "workspace"}, c \in SeqsUpTo({"..", "etc", "proj"}, 2) }

(***************************************************************************)
(* STRINGS                                                                 *)
(* A string whose characters matter (a variable key or value) is a         *)
(* sequence of one-character strings.                                      *)
(***************************************************************************)
Range(f) == {f[x] : x \in DOMAIN f}

AsciiAlnum == {"a", "k", "1"}
UnicodeAlnum == {"U+00E9"}       \* a non-ASCII letter such as U+00E9; str.isalnum() holds
\* BQ stands for the backquote, BSL for the backslash, DQ for the double
\* quote and SQ for the single quote.
ShellMeta == {"$", "BQ", ";", "&", "|", ">", "<", "(", ")", "{", "}"}
OtherChars == {"_", "-", " ", "BSL", "DQ", "SQ", "="}
Chars == AsciiAlnum \cup UnicodeAlnum \cup ShellMeta \cup OtherChars

\* str.replace(c, '')
RECURSIVE Remove(_, _)
Remove(s, c) ==
    IF s = <<>> THEN <<>>
    ELSE IF Head(s) = c THEN Remove(Tail(s), c)
         ELSE <<Head(s)>> \o Remove(Tail(s), c)

\* str.isalnum(): non-empty and every character is a letter or a digit.
isalnum(s) == s /= <<>> /\ \A i \in DOMAIN s : s[i] \in AsciiAlnum \cup UnicodeAlnum

\* "key.replace('_', '').replace('-', '').isalnum()"
KeyIsAlnum(key) == isalnum(Remove(Remove(key, "_"), "-"))

\* shlex.quote: the string itself when it is non-empty and made of safe
\* characters only, else the string in single quotes with every single
\* quote spelled SQ DQ SQ DQ SQ.
ShlexSafe == AsciiAlnum \cup {"_", "-", "="}
RECURSIVE EscapeQuotes(_)
EscapeQuotes(s) ==
    IF s = <<>> THEN <<>>
    ELSE (IF Head(s) = "SQ" THEN <<"SQ", "DQ", "SQ", "DQ", "SQ">> ELSE <<Head(s)>>)
         \o EscapeQuotes(Tail(s))

shlex_quote(s) ==
    IF s = <<>> THEN <<"SQ", "SQ">>
    ELSE IF \A i \in DOMAIN s : s[i] \in ShlexSafe THEN s
         ELSE <<"SQ">> \o EscapeQuotes(s) \o <<"SQ">>

\* A variables dictionary is a function from keys to values; None and {}
\* (both falsy wherever the code tests them) are the empty function.
EmptyVars == [k \in {} |-> <<>>]

(***************************************************************************)
(* CONTROLLED ENVIRONMENT  (terry-form-mcp.py)                             *)
(***************************************************************************)
ALLOWED_ENV_VARS ==
    { "HOME", "PATH", "USER", "TF_LOG", "TF_LOG_PATH", "TF_CLI_ARGS",
      "AWS_ACCESS_KEY_ID", "AWS_SECRET_ACCESS_KEY", "AWS_SESSION_TOKEN",
      "AWS_DEFAULT_REGION", "AWS_REGION", "AWS_PROFILE",
      "GOOGLE_CREDENTIALS", "GOOGLE_APPLICATION_CREDENTIALS", "GOOGLE_PROJECT",
      "GOOGLE_REGION", "GOOGLE_ZONE",
      "ARM_CLIENT_ID", "ARM_CLIENT_SECRET", "ARM_SUBSCRIPTION_ID", "ARM_TENANT_ID",
      "TF_TOKEN_app_terraform_io", "TERRAFORM_CLOUD_TOKEN" }

FORCED_ENV_VARS ==
    [n \in {"TF_IN_AUTOMATION", "TF_INPUT", "CHECKPOINT_DISABLE"} |->
        IF n = "TF_INPUT" THEN <<"false">> ELSE <<"true">>]

\* get_controlled_env(): the allow-listed variables that are set, then
\* env.update(FORCED_ENV_VARS).
get_controlled_env(env) ==
    LET copied == DOMAIN env \cap ALLOWED_ENV_VARS
    IN  [n \in copied \cup DOMAIN FORCED_ENV_VARS |->
            IF n \in DOMAIN FORCED_ENV_VARS THEN FORCED_ENV_VARS[n] ELSE env[n]]

\* A child created without env= inherits the server's whole environment.
inherited_env(env) == env

\* int(s) for the strings the model uses: decimal digits only.
Digits == {"0", "1", "3", "5"}
IntParses(s) == s /= <<>> /\ \A i \in DOMAIN s : s[i] \in Digits

(***************************************************************************)
(* COMMAND CONSTRUCTION                                                    *)
(* A command is [argv, var_args]: argv the fixed elements in order,        *)
(* var_args the elements derived from the variables.                       *)
(***************************************************************************)
Cmd(argv, var_args) == [argv |-> argv, var_args |-> var_args]

\* terry-form-mcp.build_terraform_command
build_terraform_command(action, tf_vars, var_file) ==
    CASE action = "init"      -> Cmd(<<"terraform", "init", "-input=false", "-no-color">>, {})
      [] action = "validate"  -> Cmd(<<"terraform", "validate", "-no-color">>, {})
      [] action = "fmt"       -> Cmd(<<"terraform", "fmt", "-check", "-diff", "-no-color">>, {})
      [] action = "plan"      ->
            IF var_file /= "none"
            THEN Cmd(<<"terraform", "plan", "-input=false", "-no-color", "-out=tfplan",
                       "-var-file", var_file>>, {})
            ELSE Cmd(<<"terraform", "plan", "-input=false", "-no-color", "-out=tfplan">>, {})
      [] action = "show"      -> Cmd(<<"terraform", "show", "-json", "-no-color">>, {})
      [] action = "graph"     -> Cmd(<<"terraform", "graph">>, {})
      [] action = "providers" -> Cmd(<<"terraform", "providers">>, {})
      [] action = "version"   -> Cmd(<<"terraform", "version", "-json">>, {})
      [] OTHER                -> Cmd(<<"terraform", action, "-no-color">>, {})

\* TerraformExecutor.__init__
allowed_actions == {"init", "validate", "fmt", "plan", "show", "graph", "providers", "version"}
disallowed_actions == {"apply", "destroy", "import"}

\* TerraformExecutor.build_var_args: raises ValueError on an invalid name,
\* else one "-var", "key=<quoted value>" pair per variable.
build_var_args_raises(vars_dict) == \E k \in DOMAIN vars_dict : ~KeyIsAlnum(k)
build_var_args(vars_dict) ==
    { k \o <<"=">> \o shlex_quote(vars_dict[k]) : k \in DOMAIN vars_dict }

base_cmds ==
    [a \in {"init", "validate", "fmt", "version", "providers", "show", "graph"} |->
        CASE a = "init"     -> <<"terraform", "init", "-input=false">>
          [] a = "validate" -> <<"terraform", "validate">>
          [] a = "fmt"      -> <<"terraform", "fmt", "-check", "-recursive">>
          [] OTHER          -> <<"terraform", a>>]

\* TerraformExecutor._build_command (extra_args is never passed by a caller
\* in this repository and is left out)
build_command_raises(action, vars_dict) ==
    action = "plan" /\ vars_dict /= EmptyVars /\ build_var_args_raises(vars_dict)
build_command(action, vars_dict) ==
    IF action = "plan"
    THEN Cmd(<<"terraform", "plan", "-input=false", "-no-color">>,
             IF vars_dict /= EmptyVars THEN build_var_args(vars_dict) ELSE {})
    ELSE IF action \in DOMAIN base_cmds THEN Cmd(base_cmds[action], {})
         ELSE Cmd(<<"terraform", action>>, {})

\* the base_cmds of the synchronous TerraformExecutor.run_terraform
sync_base_cmds == {"init", "validate", "fmt"}

(***************************************************************************)
(* RESULT PARSER                                                           *)
(* The output of "terraform show -json tfplan" is modelled by what         *)
(* json.loads makes of it:                                                 *)
(*   shape   "undecodable" (json.loads raises JSONDecodeError), "array"    *)
(*           (it decodes to something that is not an object), "object"     *)
(*   rc      the key resource_changes: "missing", "null" or "list"         *)
(*   changes the elements of that list                                     *)
(* A resource change is [kind, address, type, name, change, actions]:      *)
(* kind "object" or "scalar" (the element is no object); address, type and *)
(* name a string or "absent" (no such key); change "object", "missing" (no *)
(* such key) or "null"; actions the list under change.actions.             *)
(* The text of stdout is a sequence of tokens: numbers ("0", "2", "12"),   *)
(* the phrases " to add", " to change", " to destroy", and other words.    *)
(***************************************************************************)
MaxChanges == 3
MaxTokens == 3

NoDoc == [shape |-> "undecodable", rc |-> "missing", changes |-> <<>>]

\* dict.get(key, ""): the value, or "" when the key is absent
get(v) == IF v = "absent" THEN "" ELSE v

ZeroSummary == [add |-> 0, change |-> 0, destroy |-> 0]

\* parse_plan_output returned None
NoPlanData == [none |-> TRUE, plan_summary |-> ZeroSummary, resources |-> <<>>]

PlanData(summary, resources) ==
    [none |-> FALSE, plan_summary |-> summary, resources |-> resources]

\* "actions = change.get('change', {}).get('actions', [])" raises
\* AttributeError when the element is no object or its change is null.
change_raises(change) == change.kind /= "object" \/ change.change = "null"

change_actions(change) == IF change.change = "missing" THEN <<>> ELSE change.actions

resource_info(change) ==
    [address |-> get(change.address), type |-> get(change.type),
     name |-> get(change.name), actions |-> change_actions(change)]

\* Mutant: an action set is counted once, under its first matching kind.
count_actions_first_kind(summary, actions) ==
    IF "create" \in Range(actions) THEN [summary EXCEPT !.add = @ + 1]
    ELSE IF "update" \in Range(actions) THEN [summary EXCEPT !.change = @ + 1]
    ELSE IF "delete" \in Range(actions) THEN [summary EXCEPT !.destroy = @ + 1]
    ELSE summary

\* The three independent "if ... in actions: count += 1".
count_actions(summary, actions) ==
    [add     |-> summary.add + (IF "create" \in Range(actions) THEN 1 ELSE 0),
     change  |-> summary.change + (IF "update" \in Range(actions) THEN 1 ELSE 0),
     destroy |-> summary.destroy + (IF "delete" \in Range(actions) THEN 1 ELSE 0)]

\* The loop "for change in resource_changes" from element i on.
RECURSIVE resource_changes_loop(_, _, _, _)
resource_changes_loop(changes, i, summary, resources) ==
    IF i > Len(changes) THEN PlanData(summary, resources)
    ELSE IF change_raises(changes[i]) THEN NoPlanData
    ELSE resource_changes_loop(changes, i + 1,
                               count_actions(summary, change_actions(changes[i])),
                               Append(resources, resource_info(changes[i])))

\* parse_plan_output from "plan_data = json.loads(result.stdout)" on.
parse_plan_data(doc) ==
    CASE doc.shape = "undecodable" -> NoPlanData      \* except json.JSONDecodeError
      [] doc.shape = "array"       -> NoPlanData      \* .get raises: except Exception
      [] doc.rc = "null"           -> NoPlanData      \* iterating None raises
      [] doc.rc = "missing"        -> PlanData(ZeroSummary, <<>>)
      [] OTHER -> resource_changes_loop(doc.changes, 1, ZeroSummary, <<>>)

\* parse_plan_output(path): plan_exists is plan_file.exists(), show the
\* outcome of the secondary subprocess.run ("ok" is return code 0).
parse_plan_output(plan_exists, show, doc) ==
    IF ~plan_exists THEN NoPlanData
    ELSE IF show /= "ok" THEN NoPlanData
    ELSE parse_plan_data(doc)

Numbers == {"0", "1", "2", "12"}
int(tok) == CASE tok = "0" -> 0 [] tok = "1" -> 1 [] tok = "2" -> 2 [] tok = "12" -> 12

\* re.search(r"(\d+) <phrase>", stdout): the leftmost number followed by the
\* phrase; 0 when there is no match.
search(phrase, stdout) ==
    LET hits == {i \in 1..(Len(stdout) - 1) :
                    stdout[i] \in Numbers /\ stdout[i + 1] = phrase}
    IN  IF hits = {} THEN 0
        ELSE int(stdout[CHOOSE i \in hits : \A j \in hits : i <= j])

parse_text_plan_summary(stdout) ==
    [add     |-> search(" to add", stdout),
     change  |-> search(" to change", stdout),
     destroy |-> search(" to destroy", stdout)]

\* json.loads(stdout) of the action's own output: "object", "other" (it
\* decodes to something that is no object) or "undecodable".
json_loads(stdout) ==
    CASE stdout = <<"{}">> -> "object"
      [] stdout = <<"[]">> -> "other"
      [] Len(stdout) = 1 /\ stdout[1] \in Numbers -> "other"
      [] OTHER -> "undecodable"

\* Mutant: the text summary is taken whenever stdout has a summary line.
plan_enrichment_text_first(plan_data, stdout) ==
    IF ~plan_data.none /\ parse_text_plan_summary(stdout) = ZeroSummary
    THEN [plan_summary |-> plan_data.plan_summary, resources |-> plan_data.resources,
          has_resources |-> TRUE]
    ELSE [plan_summary |-> parse_text_plan_summary(stdout), resources |-> <<>>,
          has_resources |-> FALSE]

\* The plan branch of run_terraform: "if plan_data: ... else: text fallback".
plan_enrichment(plan_data, stdout) ==
    IF ~plan_data.none
    THEN [plan_summary |-> plan_data.plan_summary, resources |-> plan_data.resources,
          has_resources |-> TRUE]
    ELSE [plan_summary |-> parse_text_plan_summary(stdout), resources |-> <<>>,
          has_resources |-> FALSE]

(***************************************************************************)
(* EXECUTION ENGINE                                                        *)
(* One engine invocation is a record.  fn names the entry point:           *)
(*   "run_terraform"                       terry-form-mcp.py               *)
(*   "TerraformExecutor.run_terraform"     internal/terraform/executor.py  *)
(*   "TerraformExecutor.execute_terraform" internal/terraform/executor.py  *)
(* pc is the position of the call: "idle" (no call), "start", "build",     *)
(* "running" (waiting for the child), "parse", "show" (waiting for the     *)
(* secondary terraform show), "finally", "returned", "raised".             *)
(* chunks and docs are what the terraform child of the invocation may      *)
(* print in its working directory: the pieces of stdout of the action, and *)
(* the documents of a successful secondary show.                           *)
(***************************************************************************)
MaxOut == 1

\* What a child may write at once: a line of text, the plan summary line, a
\* JSON object, a JSON array.
OutChunks == {<<"out">>, <<"2", " to add">>, <<"{}">>, <<"[]">>}
TmpNames == {"tmp1.tfvars.json", "tmp2.tfvars.json"}

\* What the secondary show may print when it exits with code 0.
ShowDocs ==
    {[shape |-> "undecodable", rc |-> "missing", changes |-> <<>>],
     [shape |-> "array", rc |-> "missing", changes |-> <<>>],
     [shape |-> "object", rc |-> "missing", changes |-> <<>>],
     [shape |-> "object", rc |-> "list",
      changes |-> <<[kind |-> "object", address |-> "aws_vpc.a", type |-> "aws_vpc",
                     name |-> "a", change |-> "object", actions |-> <<"create">>]>>],
     [shape |-> "object", rc |-> "list",
      changes |-> <<[kind |-> "object", address |-> "aws_vpc.a", type |-> "aws_vpc",
                     name |-> "a", change |-> "null", actions |-> <<>>]>>]}


DEFAULT_TIMEOUT == 300
SYNC_TIMEOUT == 300
SHOW_TIMEOUT == 60

NoCmd == Cmd(<<>>, {})

\* A response: the five keys every response has and the optional ones,
\* has_plan_summary / has_resources telling whether the key is present and
\* extras the other optional keys present.
Response(action, success, exit_code, stdout, stderr) ==
    [action |-> action, success |-> success, exit_code |-> exit_code,
     stdout |-> stdout, stderr |-> stderr,
     has_plan_summary |-> FALSE, plan_summary |-> ZeroSummary,
     has_resources |-> FALSE, resources |-> <<>>, extras |-> {}]

NoResponse == Response("", FALSE, 0, <<>>, "")

\* response["plan_summary"] = ..., response["resources"] = ...
WithPlan(resp, enrichment) ==
    [resp EXCEPT !.has_plan_summary = TRUE,
                 !.plan_summary = enrichment.plan_summary,
                 !.has_resources = enrichment.has_resources,
                 !.resources = enrichment.resources]

\* The version and show branches of run_terraform.  "raised" is the
\* AttributeError of version_data.get on a decoded value that is no object:
\* it is not a JSONDecodeError, the except Exception of run_terraform gets it.
VERSION_KEYS == {"terraform_version", "platform", "provider_selections"}
enrich_raises(resp) ==
    resp.action = "version" /\ resp.exit_code = 0 /\ json_loads(resp.stdout) = "other"
enrich(resp) ==
    IF resp.exit_code /= 0 THEN resp
    ELSE IF resp.action = "version" /\ json_loads(resp.stdout) = "object"
         THEN [resp EXCEPT !.extras = VERSION_KEYS]
    ELSE IF resp.action = "show" /\ json_loads(resp.stdout) /= "undecodable"
         THEN [resp EXCEPT !.extras = {"state"}]
    ELSE resp

\* The response of run_terraform's "except Exception".
UnexpectedError(action) == Response(action, FALSE, -1, <<>>, "Unexpected error")

\* run_terraform from the plan branch to "return response".
finish_response(resp) ==
    IF enrich_raises(resp) THEN UnexpectedError(resp.action) ELSE enrich(resp)

IdleRun ==
    [fn |-> "none", path |-> <<>>, action |-> "", vars |-> EmptyVars, pc |-> "idle",
     temp_var_file |-> "none", cmd |-> NoCmd, child |-> "none", stdout |-> <<>>,
     exit_code |-> 0, response |-> NoResponse, error |-> "none",
     show |-> "none", show_doc |-> NoDoc,
     chunks |-> OutChunks, docs |-> ShowDocs]

NewRun(fn, path, action, tf_vars) ==
    [IdleRun EXCEPT !.fn = fn, !.path = path, !.action = action, !.vars = tf_vars,
                    !.pc = "start"]

\* The links of the filesystem the engine runs on.
EngineLinks ==
    (<<"mnt", "workspace", "out">> :> <<"etc">>) @@
    (<<"mnt", "workspace", "in">> :> <<"mnt", "workspace", "proj">>)

ProjDir == <<"mnt", "workspace", "proj">>
EtcDir == <<"etc">>

\* Mutant: every invocation works in one and the same directory.
DirOf_shared(p) == <<"mnt", "workspace", "proj">>

\* the directory an invocation works in: cwd=path, dir=path, Path(path)
DirOf(p) == resolve(p, links)

\* Path.exists() / Path.is_dir() follow symlinks.
Last(s) == s[Len(s)]
PathKind(p) ==
    LET c == resolve(p, links)
    IN  IF c \in DOMAIN fs THEN "dir"
        ELSE IF c /= <<>> /\ Parent(c) \in DOMAIN fs /\ Last(c) \in fs[Parent(c)]
             THEN "file"
             ELSE "missing"

Spawn(r, kind, cmd, env, cwd) ==
    [inv |-> r, kind |-> kind, cmd |-> cmd, env |-> env, cwd |-> cwd]

FsOp(r, op, dir, name) == [inv |-> r, op |-> op, dir |-> dir, name |-> name]

Return(r, resp) ==
    inv' = [inv EXCEPT ![r].pc = "returned", ![r].response = resp]

Raise(r, exc) ==
    inv' = [inv EXCEPT ![r].pc = "raised", ![r].error = exc]

\* ---- terry-form-mcp.run_terraform ----

\* "timeout = int(os.environ.get('MAX_OPERATION_TIMEOUT', 300))", the two
\* path checks and the creation of the variable file.
RunBegin(r) ==
    /\ inv[r].pc = "start"
    /\ inv[r].fn = "run_terraform"
    /\ UNCHANGED <<environ, spawned, engFrame>>
    /\ IF "MAX_OPERATION_TIMEOUT" \in DOMAIN environ
          /\ ~IntParses(environ["MAX_OPERATION_TIMEOUT"])
       THEN Raise(r, "ValueError") /\ UNCHANGED <<fs, fsLog>>
       ELSE IF PathKind(inv[r].path) = "missing"
       THEN /\ Return(r, Response(inv[r].action, FALSE, -1, <<>>, "path does not exist"))
            /\ UNCHANGED <<fs, fsLog>>
       ELSE IF PathKind(inv[r].path) = "file"
       THEN /\ Return(r, Response(inv[r].action, FALSE, -1, <<>>, "path is not a directory"))
            /\ UNCHANGED <<fs, fsLog>>
       ELSE IF inv[r].action = "plan" /\ inv[r].vars /= EmptyVars
       THEN LET d == DirOf(inv[r].path) IN
            \/ \* NamedTemporaryFile(dir=path, delete=False); json.dump; close
               \E n \in TmpNames \ fs[d] :
                  /\ fs' = [fs EXCEPT ![d] = @ \cup {n}]
                  /\ fsLog' = Append(fsLog, FsOp(r, "create", d, n))
                  /\ inv' = [inv EXCEPT ![r].temp_var_file = n, ![r].pc = "build"]
            \/ \* the file is created and json.dump raises
               \E n \in TmpNames \ fs[d] :
                  /\ fs' = [fs EXCEPT ![d] = @ \cup {n}]
                  /\ fsLog' = Append(fsLog, FsOp(r, "create", d, n))
                  /\ inv' = [inv EXCEPT ![r].temp_var_file = n, ![r].pc = "finally",
                                ![r].response =
                                    Response(inv[r].action, FALSE, -1, <<>>, "Unexpected error")]
            \/ \* NamedTemporaryFile raises PermissionError
               /\ inv' = [inv EXCEPT ![r].pc = "finally",
                             ![r].response =
                                 Response(inv[r].action, FALSE, -1, <<>>, "Permission denied")]
               /\ UNCHANGED <<fs, fsLog>>
       ELSE /\ inv' = [inv EXCEPT ![r].pc = "build"]
            /\ UNCHANGED <<fs, fsLog>>

\* build_terraform_command and subprocess.run(cmd, cwd=path, timeout=timeout,
\* env=get_controlled_env()) up to the creation of the child.
RunSpawn(r) ==
    /\ inv[r].pc = "build"
    /\ inv[r].fn = "run_terraform"
    /\ UNCHANGED <<environ, fs, fsLog, engFrame>>
    /\ LET cmd == build_terraform_command(inv[r].action, inv[r].vars, inv[r].temp_var_file)
       IN  \/ /\ spawned' = Append(spawned,
                     Spawn(r, "action", cmd, get_controlled_env(environ), DirOf(inv[r].path)))
              /\ inv' = [inv EXCEPT ![r].cmd = cmd, ![r].child = "running",
                                    ![r].pc = "running"]
           \/ /\ inv' = [inv EXCEPT ![r].cmd = cmd, ![r].pc = "finally",
                            ![r].response =
                                Response(inv[r].action, FALSE, -1, <<>>, "Terraform binary not found")]
              /\ UNCHANGED spawned
           \/ /\ inv' = [inv EXCEPT ![r].cmd = cmd, ![r].pc = "finally",
                            ![r].response =
                                Response(inv[r].action, FALSE, -1, <<>>, "Permission denied")]
              /\ UNCHANGED spawned

\* ---- the child process ----

ChildOutput(r) ==
    /\ inv[r].pc = "running"
    /\ inv[r].child = "running"
    /\ Len(inv[r].stdout) < MaxOut
    /\ \E c \in inv[r].chunks : inv' = [inv EXCEPT ![r].stdout = @ \o c]
    /\ UNCHANGED <<environ, fs, fsLog, spawned, engFrame>>

\* terraform plan -out=tfplan writes the plan file into its working directory.
ChildWritesPlan(r) ==
    /\ inv[r].pc = "running"
    /\ inv[r].child = "running"
    /\ \E i \in DOMAIN inv[r].cmd.argv : inv[r].cmd.argv[i] = "-out=tfplan"
    /\ ~\E i \in DOMAIN fsLog :
           fsLog[i] = FsOp(r, "create", DirOf(inv[r].path), "tfplan")
    /\ fs' = [fs EXCEPT ![DirOf(inv[r].path)] = @ \cup {"tfplan"}]
    /\ fsLog' = Append(fsLog, FsOp(r, "create", DirOf(inv[r].path), "tfplan"))
    /\ UNCHANGED <<environ, inv, spawned, engFrame>>

ChildExit(r) ==
    /\ inv[r].pc = "running"
    /\ inv[r].child = "running"
    /\ \E code \in {0, 1} :
          inv' = [inv EXCEPT ![r].child = "exited", ![r].exit_code = code]
    /\ UNCHANGED <<environ, fs, fsLog, spawned, engFrame>>

\* ---- terry-form-mcp.run_terraform, continued ----

\* except subprocess.TimeoutExpired: subprocess.run has killed the child.
RunTimeout(r) ==
    /\ inv[r].pc = "running"
    /\ inv[r].fn = "run_terraform"
    /\ inv[r].child = "running"
    /\ inv' = [inv EXCEPT ![r].child = "killed", ![r].pc = "finally",
                  ![r].response =
                      Response(inv[r].action, FALSE, -1, inv[r].stdout, "Operation timed out")]
    /\ UNCHANGED <<environ, fs, fsLog, spawned, engFrame>>

\* The response of a completed child; for plan, parse_plan_output up to the
\* creation of the secondary "terraform show -json tfplan".
RunCollect(r) ==
    /\ inv[r].pc = "running"
    /\ inv[r].fn = "run_terraform"
    /\ inv[r].child = "exited"
    /\ UNCHANGED <<environ, fs, fsLog, engFrame>>
    /\ LET resp == Response(inv[r].action, inv[r].exit_code = 0, inv[r].exit_code,
                            inv[r].stdout, "child stderr")
           d == DirOf(inv[r].path)
           fallback == WithPlan(resp, plan_enrichment(NoPlanData, resp.stdout))
       IN  IF inv[r].action = "plan"
           THEN IF "tfplan" \notin fs[d]
                THEN /\ inv' = [inv EXCEPT ![r].pc = "finally", ![r].response = fallback]
                     /\ UNCHANGED spawned
                ELSE \/ /\ spawned' = Append(spawned,
                               Spawn(r, "show", Cmd(<<"terraform", "show", "-json", "tfplan">>, {}),
                                     get_controlled_env(environ), d))
                        /\ inv' = [inv EXCEPT ![r].pc = "show", ![r].response = resp]
                     \/ \* subprocess.run raises: parse_plan_output returns None
                        /\ inv' = [inv EXCEPT ![r].pc = "finally", ![r].show = "oserror",
                                              ![r].response = fallback]
                        /\ UNCHANGED spawned
           ELSE /\ inv' = [inv EXCEPT ![r].pc = "finally",
                                      ![r].response = finish_response(resp)]
                /\ UNCHANGED spawned

\* The secondary show ends; parse_plan_output returns and the plan branch
\* of run_terraform adds plan_summary (and resources).
RunShowDone(r) ==
    /\ inv[r].pc = "show"
    /\ \E outcome \in {"ok", "nonzero", "timeout"} :
       \E doc \in (IF outcome = "ok" THEN inv[r].docs ELSE {NoDoc}) :
          LET plan_data == parse_plan_output(TRUE, outcome, doc)
          IN  inv' = [inv EXCEPT ![r].pc = "finally", ![r].show = outcome,
                         ![r].show_doc = doc,
                         ![r].response =
                             WithPlan(@, plan_enrichment(plan_data, inv[r].response.stdout))]
    /\ UNCHANGED <<environ, fs, fsLog, spawned, engFrame>>

\* finally: unlink the variable file and the plan file when they exist.
\* Mutant: the cleanup is made on the success path only.
run_terraform_cleanup_on_success(r) ==
    IF inv[r].response.success
    THEN (IF inv[r].temp_var_file /= "none" THEN <<inv[r].temp_var_file>> ELSE <<>>)
         \o <<"tfplan">>
    ELSE <<>>

\* The names the finally clause unlinks (when they exist), in order.
run_terraform_cleanup(r) ==
    (IF inv[r].temp_var_file /= "none" THEN <<inv[r].temp_var_file>> ELSE <<>>)
    \o <<"tfplan">>

RunFinally(r) ==
    /\ inv[r].pc = "finally"
    /\ LET d == DirOf(inv[r].path)
           names == SelectSeq(run_terraform_cleanup(r), LAMBDA n : n \in fs[d])
       IN  /\ fs' = [fs EXCEPT ![d] = @ \ Range(names)]
           /\ fsLog' = fsLog \o [i \in DOMAIN names |-> FsOp(r, "delete", d, names[i])]
    /\ inv' = [inv EXCEPT ![r].pc = IF inv[r].error = "none" THEN "returned" ELSE "raised"]
    /\ UNCHANGED <<environ, spawned, engFrame>>

\* A KeyboardInterrupt or SystemExit arrives while subprocess.run waits for
\* the child (the action's or the secondary show): subprocess.run kills the
\* child and re-raises, no except clause of run_terraform matches, and the
\* finally clause runs before the exception leaves.
RunCancel(r) ==
    /\ inv[r].fn = "run_terraform"
    /\ \/ /\ inv[r].pc = "running"
          /\ inv[r].child = "running"
          /\ inv' = [inv EXCEPT ![r].child = "killed", ![r].pc = "finally",
                                ![r].error = "KeyboardInterrupt"]
       \/ /\ inv[r].pc = "show"
          /\ inv' = [inv EXCEPT ![r].show = "cancelled", ![r].pc = "finally",
                                ![r].error = "KeyboardInterrupt"]
    /\ UNCHANGED <<environ, fs, fsLog, spawned, engFrame>>

\* ---- TerraformExecutor.run_terraform (synchronous) ----

ExecRunBegin(r) ==
    /\ inv[r].pc = "start"
    /\ inv[r].fn = "TerraformExecutor.run_terraform"
    /\ UNCHANGED <<environ, fs, fsLog, engFrame>>
    /\ IF inv[r].action = "plan" /\ inv[r].vars /= EmptyVars
          /\ build_var_args_raises(inv[r].vars)
       THEN Raise(r, "ValueError") /\ UNCHANGED spawned
       ELSE IF inv[r].action /= "plan" /\ inv[r].action \notin sync_base_cmds
       THEN /\ Return(r, Response(inv[r].action, FALSE, 1, <<>>, "Unknown action"))
            /\ UNCHANGED spawned
       ELSE LET cmd == build_command(inv[r].action, inv[r].vars) IN
            \/ \* subprocess.run(cmd, cwd=path, timeout=300, shell=False)
               /\ spawned' = Append(spawned,
                      Spawn(r, "action", cmd, inherited_env(environ), DirOf(inv[r].path)))
               /\ inv' = [inv EXCEPT ![r].cmd = cmd, ![r].child = "running",
                                     ![r].pc = "running"]
            \/ \* except Exception
               /\ Return(r, Response(inv[r].action, FALSE, 1, <<>>, "exception text"))
               /\ UNCHANGED spawned

\* except subprocess.TimeoutExpired
ExecRunTimeout(r) ==
    /\ inv[r].pc = "running"
    /\ inv[r].fn = "TerraformExecutor.run_terraform"
    /\ inv[r].child = "running"
    /\ inv' = [inv EXCEPT ![r].child = "killed", ![r].pc = "returned",
                  ![r].response =
                      Response(inv[r].action, FALSE, 124, <<>>, "Command timed out")]
    /\ UNCHANGED <<environ, fs, fsLog, spawned, engFrame>>

\* The same in subprocess.run of the synchronous executor: the child is
\* killed, "except Exception" does not match, the exception leaves.
ExecRunCancel(r) ==
    /\ inv[r].pc = "running"
    /\ inv[r].fn = "TerraformExecutor.run_terraform"
    /\ inv[r].child = "running"
    /\ inv' = [inv EXCEPT ![r].child = "killed", ![r].pc = "raised",
                          ![r].error = "KeyboardInterrupt"]
    /\ UNCHANGED <<environ, fs, fsLog, spawned, engFrame>>

\* ---- TerraformExecutor.execute_terraform (asynchronous) ----

ExecAsyncBegin(r) ==
    /\ inv[r].pc = "start"
    /\ inv[r].fn = "TerraformExecutor.execute_terraform"
    /\ UNCHANGED <<environ, fs, fsLog, engFrame>>
    /\ IF inv[r].action \in disallowed_actions
       THEN /\ Return(r, Response(inv[r].action, FALSE, 1, <<>>, "Action is not allowed"))
            /\ UNCHANGED spawned
       ELSE IF inv[r].action \notin allowed_actions
       THEN /\ Return(r, Response(inv[r].action, FALSE, 1, <<>>, "Unknown action"))
            /\ UNCHANGED spawned
       ELSE IF build_command_raises(inv[r].action, inv[r].vars)
       THEN Raise(r, "ValueError") /\ UNCHANGED spawned
       ELSE LET cmd == build_command(inv[r].action, inv[r].vars) IN
            \/ \* asyncio.create_subprocess_exec(*cmd, cwd=str(path), ...)
               /\ spawned' = Append(spawned,
                      Spawn(r, "action", cmd, inherited_env(environ), DirOf(inv[r].path)))
               /\ inv' = [inv EXCEPT ![r].cmd = cmd, ![r].child = "running",
                                     ![r].pc = "running"]
            \/ \* except Exception
               /\ Return(r, Response(inv[r].action, FALSE, -1, <<>>, "exception text"))
               /\ UNCHANGED spawned

\* The task is cancelled at "await process.communicate()": CancelledError
\* is no Exception, so it leaves execute_terraform, which has neither a
\* finally clause nor a kill.  asyncio does not end the child of a cancelled
\* communicate(); the transport kills it only if it is closed or collected
\* while the child still runs, which the code does not control.
ExecAsyncCancel(r) ==
    /\ inv[r].pc = "running"
    /\ inv[r].fn = "TerraformExecutor.execute_terraform"
    /\ inv[r].child = "running"
    /\ \E c \in {"running", "killed"} :
          inv' = [inv EXCEPT ![r].child = c, ![r].pc = "raised",
                                ![r].error = "CancelledError"]
    /\ UNCHANGED <<environ, fs, fsLog, spawned, engFrame>>

\* Both executors: the result of a completed child.
ExecCollect(r) ==
    /\ inv[r].pc = "running"
    /\ inv[r].fn \in {"TerraformExecutor.run_terraform", "TerraformExecutor.execute_terraform"}
    /\ inv[r].child = "exited"
    /\ Return(r, Response(inv[r].action, inv[r].exit_code = 0, inv[r].exit_code,
                          inv[r].stdout, "child stderr"))
    /\ UNCHANGED <<environ, fs, fsLog, spawned, engFrame>>

(***************************************************************************)
(* REQUEST VALIDATOR  (mcp_request_validator.py) and the gateway's own     *)
(* variable check (server_mcp_only.validate_terraform_vars)                *)
(*                                                                         *)
(* A request is [method, params, extra]: method a sequence of tokens (the  *)
(* name split at every character that is not a letter, digit or '_', the   *)
(* separators kept), params a mapping from parameter names to values,      *)
(* extra whether the envelope has a property besides method, params, id.   *)
(* A path parameter is a sequence of characters here.                      *)
(***************************************************************************)
MaxValLen == 2

\* re.search: sub occurs in s
Contains(s, sub) ==
    \E i \in 1..(Len(s) - Len(sub) + 1) : SubSeq(s, i, i + Len(sub) - 1) = sub

ContainsAny(s, subs) == \E sub \in subs : Contains(s, sub)

\* MCP_TOOL_CALL_SCHEMA: "method" matches ^[a-zA-Z_][a-zA-Z0-9_]*$ and no
\* additional properties.  A method of one identifier token matches; a
\* method with a separator such as '/' does not.
MCP_TOOL_CALL_SCHEMA(request) ==
    /\ Len(request.method) = 1
    /\ request.method[1] \notin {"/", ""}
    /\ ~request.extra

TERRY_PARAMS == {"path", "actions", "vars", "auto_approve", "destroy"}
LSP_PARAMS == {"file_path", "line", "character"}
GITHUB_PARAMS ==
    {"owner", "repo", "branch", "path", "pattern", "config_path", "workspace_name",
     "force", "days_old"}

\* TOOL_SCHEMAS: the properties of each registered tool
TOOL_SCHEMAS ==
    [t \in {"terry", "terry_validate", "terry_hover", "terry_complete", "terry_format",
            "terry_workspace_info", "github_clone_repo", "github_list_terraform_files",
            "github_get_terraform_config", "github_prepare_workspace", "github_repo_info",
            "github_cleanup_repos", "terry_lsp_status", "github_list_installations"} |->
        CASE t = "terry" -> TERRY_PARAMS
          [] t \in {"terry_validate", "terry_hover", "terry_complete", "terry_format"} -> LSP_PARAMS
          [] t = "terry_workspace_info" -> {"path"}
          [] t \in {"terry_lsp_status", "github_list_installations"} -> {}
          [] OTHER -> GITHUB_PARAMS]

\* "pattern": "(\.\./|\\|\$|`|;|&|\||>|<|\(|\)|{|})" of the terry path
TerryPathForbidden ==
    {<<".", ".", "/">>, <<"BSL">>, <<"$">>, <<"BQ">>, <<";">>, <<"&">>, <<"|">>,
     <<">">>, <<"<">>, <<"(">>, <<")">>, <<"{">>, <<"}">>}

SCHEMA_ACTIONS == {"init", "validate", "fmt", "plan", "show", "graph", "providers", "version"}

\* "^[a-zA-Z_][a-zA-Z0-9_-]*$"
AsciiLetters == {"a", "k"}
VarKeyPattern(key) ==
    /\ key /= <<>>
    /\ key[1] \in AsciiLetters \cup {"_"}
    /\ \A i \in DOMAIN key : key[i] \in AsciiAlnum \cup {"_", "-"}

\* TERRY_PARAMS_SCHEMA (values are strings here; the length caps of 4096 and
\* 1024 characters and the 100-property cap are beyond the strings modelled)
TERRY_PARAMS_SCHEMA(params) ==
    /\ DOMAIN params \subseteq TERRY_PARAMS
    /\ "path" \in DOMAIN params
    /\ Len(params["path"]) >= 1
    /\ ~ContainsAny(params["path"], TerryPathForbidden)
    /\ "actions" \in DOMAIN params =>
          /\ Len(params["actions"]) \in 1..10
          /\ \A i \in DOMAIN params["actions"] : params["actions"][i] \in SCHEMA_ACTIONS
    /\ "vars" \in DOMAIN params =>
          \A k \in DOMAIN params["vars"] : VarKeyPattern(k)
    /\ "auto_approve" \in DOMAIN params => params["auto_approve"] \in BOOLEAN
    /\ "destroy" \in DOMAIN params => params["destroy"] \in BOOLEAN

\* the schemas of the other tools, as far as the requests modelled reach them
OTHER_PARAMS_SCHEMA(tool, params) ==
    /\ DOMAIN params \subseteq TOOL_SCHEMAS[tool]
    /\ tool \in {"terry_validate", "terry_hover", "terry_complete", "terry_format"} =>
          "file_path" \in DOMAIN params

ToolSchemaOK(tool, params) ==
    IF tool = "terry" THEN TERRY_PARAMS_SCHEMA(params)
    ELSE OTHER_PARAMS_SCHEMA(tool, params)

\* the dangerous_patterns of _security_checks; "\\n", "\\r", "\\0" are a
\* backslash followed by a letter or digit
PathDangerous ==
    {<<"$", "(">>, <<"$", "{">>, <<"BQ">>, <<"BSL", "n">>, <<"BSL", "r">>, <<"BSL", "0">>,
     <<";">>, <<"&">>, <<"|">>, <<">", ">">>, <<"<", "<">>, <<"&", "&">>, <<"|", "|">>}

\* "method.startswith('terry')" on the tool names of the model
StartsWithTerry(method) ==
    method \in {"terry", "terry_validate", "terry_hover", "terry_complete", "terry_format",
                "terry_workspace_info", "terry_lsp_status", "terry_lsp_init",
                "terry_file_check"}

\* MCPRequestValidator._security_checks
security_checks(method, params) ==
    IF StartsWithTerry(method)
    THEN /\ "path" \in DOMAIN params => ~ContainsAny(params["path"], PathDangerous)
         /\ "vars" \in DOMAIN params =>
               \A k \in DOMAIN params["vars"] :
                   /\ ~Contains(params["vars"][k], <<"{", "{">>)
                   /\ ~Contains(params["vars"][k], <<"$", "{">>)
    ELSE TRUE

Verdict(valid, reason) == [valid |-> valid, reason |-> reason]

NoParams == [k \in {} |-> <<>>]

Request(method, params, extra) == [method |-> method, params |-> params, extra |-> extra]

\* Mutant: the security heuristics run before the parameter schema.
validate_request_security_first(request) ==
    IF ~MCP_TOOL_CALL_SCHEMA(request)
    THEN Verdict(FALSE, "Invalid request structure")
    ELSE IF request.method[1] \notin DOMAIN TOOL_SCHEMAS
    THEN Verdict(FALSE, "Unknown tool")
    ELSE IF ~security_checks(request.method[1], request.params)
    THEN Verdict(FALSE, "Security validation failed")
    ELSE IF ~ToolSchemaOK(request.method[1], request.params)
    THEN Verdict(FALSE, "Invalid parameters")
    ELSE Verdict(TRUE, "None")

\* MCPRequestValidator.validate_request
validate_request(request) ==
    IF ~MCP_TOOL_CALL_SCHEMA(request)
    THEN Verdict(FALSE, "Invalid request structure")
    ELSE IF request.method[1] \notin DOMAIN TOOL_SCHEMAS
    THEN Verdict(FALSE, "Unknown tool")
    ELSE IF ~ToolSchemaOK(request.method[1], request.params)
    THEN Verdict(FALSE, "Invalid parameters")
    ELSE IF ~security_checks(request.method[1], request.params)
    THEN Verdict(FALSE, "Security validation failed")
    ELSE Verdict(TRUE, "None")

\* MCPRequestValidator.sanitize_params: the keys of the tool's schema are
\* kept when the tool has one; auto_approve and destroy are set to False
\* when the name starts with "terry".
Restrict(f, keys) == [k \in DOMAIN f \cap keys |-> f[k]]

sanitize_params(method, params) ==
    LET kept == IF method \in DOMAIN TOOL_SCHEMAS
                THEN Restrict(params, TOOL_SCHEMAS[method])
                ELSE params
    IN  IF StartsWithTerry(method)
        THEN ("auto_approve" :> FALSE) @@ ("destroy" :> FALSE) @@ kept
        ELSE kept

\* server_mcp_only.validate_terraform_vars
dangerous_chars ==
    {"$", "BQ", "BSL", "DQ", "SQ", ";", "&", "|", ">", "<", "(", ")", "{", "}"}

validate_terraform_vars(tf_vars) ==
    IF \E k \in DOMAIN tf_vars : ~KeyIsAlnum(k)
    THEN Verdict(FALSE, "Invalid variable name")
    ELSE IF \E k \in DOMAIN tf_vars : \E i \in DOMAIN tf_vars[k] : tf_vars[k][i] \in dangerous_chars
    THEN Verdict(FALSE, "Variable value contains dangerous characters")
    ELSE Verdict(TRUE, "")


(***************************************************************************)
(* GATEWAY: the terry tool of each server and run_terraform_actions        *)
(*   "server"                    server.py                                 *)
(*   "server_enhanced_with_lsp"  server_enhanced_with_lsp.py (the tool     *)
(*                               wrapped by the validate_request decorator)*)
(*   "server_mcp_only"           server_mcp_only.py                        *)
(*   "run_terraform_actions"     terry-form-mcp.py                         *)
(* gw is the one gateway invocation: its arguments, its position pc        *)
(* ("received", "loop", "calling", "returned", "raised"), the index of the *)
(* next action, the results so far and what it returned.  The engine call  *)
(* of the current action is the engine invocation "i1".                    *)
(***************************************************************************)
MaxBatch == 2

\* server_mcp_only.py
ALLOWED_TERRAFORM_ACTIONS == {"init", "validate", "fmt", "plan"}
BLOCKED_ACTIONS == {"apply", "destroy", "import", "taint", "untaint"}

\* What a batch entry point returns.  success is the aggregate key of the
\* returned mapping: "true" / "false" where the code computes one
\* (server_mcp_only: all(r.get('success', False) for r in results)), "absent"
\* where the returned value has no such key (server.py and the enhanced
\* server return {"terry-results": results}, run_terraform_actions returns
\* the bare list).
NoRet == [kind |-> "none", error |-> "", success |-> "absent"]
ErrorRet(msg) == [kind |-> "error", error |-> msg, success |-> "absent"]
all_success(results) ==
    IF \A i \in DOMAIN results : results[i].success THEN "true" ELSE "false"
ResultsRet(server, results) ==
    [kind |-> "results", error |-> "",
     success |-> IF server = "server_mcp_only" THEN all_success(results)
                 ELSE "absent"]

IdleGw ==
    [server |-> "none", path |-> NoPath, actions |-> <<>>, vars |-> EmptyVars,
     auto_approve |-> FALSE, destroy |-> FALSE, pc |-> "idle", full_path |-> <<>>,
     idx |-> 1, results |-> <<>>, ret |-> NoRet, error |-> "none"]

NewGw(server, path, actions, tf_vars, auto_approve, destroy) ==
    [IdleGw EXCEPT !.server = server, !.path = path, !.actions = actions,
                   !.vars = tf_vars, !.auto_approve = auto_approve,
                   !.destroy = destroy, !.pc = "received"]

\* str(Path("/mnt/workspace") / path): an absolute path replaces the root; a
\* scheme-prefixed string is joined like any relative string, its "scheme:"
\* becoming the first component.
full_path(path) ==
    IF path.abs THEN path.comps
    ELSE IF HasScheme(path) THEN WORKSPACE_ROOT \o <<path.scheme \o ":">> \o path.comps
         ELSE WORKSPACE_ROOT \o path.comps

GwReturnError(msg) == gw' = [gw EXCEPT !.pc = "returned", !.ret = ErrorRet(msg)]

GwEngineIdle == UNCHANGED <<environ, fs, inv, spawned, fsLog, links>>
GwGlobals == UNCHANGED <<request_validator, REPO_HANDLER, gwFrame>>

\* ---- server.py: terry ----
GwEnterServer ==
    /\ gw.pc = "received"
    /\ gw.server = "server"
    /\ gw' = [gw EXCEPT !.pc = "loop", !.full_path = full_path(gw.path)]
    /\ GwEngineIdle
    /\ GwGlobals

\* ---- server_enhanced_with_lsp.py: validate_request("terry") wrapper, then
\* the head of terry ----
WrapperRequest(tool_name, kwargs) ==
    Request(<<"tools", "/", "call">>,
            ("name" :> tool_name) @@ ("arguments" :> kwargs), FALSE)

GwEnterEnhanced ==
    /\ gw.pc = "received"
    /\ gw.server = "server_enhanced_with_lsp"
    /\ LET kwargs == [path |-> gw.path, actions |-> gw.actions, vars |-> gw.vars]
       IN  IF request_validator = "loaded"
              /\ ~validate_request(WrapperRequest("terry", kwargs)).valid
           THEN GwReturnError("Validation failed")
           ELSE IF ~validate_safe_path(gw.path, links)
           THEN GwReturnError("Invalid path: Access outside workspace is not allowed")
           ELSE gw' = [gw EXCEPT !.pc = "loop", !.full_path = full_path(gw.path)]
    /\ GwEngineIdle
    /\ GwGlobals

\* ---- server_mcp_only.py: the head of terry ----
TerraformWorkspace == <<"mnt", "workspace", "terraform-workspaces", "ws">>

GwEnterMcpOnly ==
    /\ gw.pc = "received"
    /\ gw.server = "server_mcp_only"
    /\ GwEngineIdle
    /\ GwGlobals
    /\ IF gw.auto_approve THEN GwReturnError("auto_approve is blocked for security reasons")
       ELSE IF gw.destroy THEN GwReturnError("destroy action is blocked for security reasons")
       ELSE IF \E i \in DOMAIN gw.actions :
                  /\ gw.actions[i] \in BLOCKED_ACTIONS
                  /\ \A j \in 1..(i - 1) : gw.actions[j] \in ALLOWED_TERRAFORM_ACTIONS
       THEN GwReturnError("Action is blocked for security reasons")
       ELSE IF \E i \in DOMAIN gw.actions : gw.actions[i] \notin ALLOWED_TERRAFORM_ACTIONS
       THEN GwReturnError("Unknown action")
       ELSE IF gw.vars /= EmptyVars /\ ~validate_terraform_vars(gw.vars).valid
       THEN GwReturnError("Variable validation failed")
       ELSE IF gw.path.scheme = "github" /\ REPO_HANDLER = "handler"
       THEN IF Len(gw.path.comps) < 2
            THEN GwReturnError("Invalid GitHub path format")
            ELSE \/ \* prepare_terraform_workspace returned an error
                    GwReturnError("workspace preparation failed")
                 \/ gw' = [gw EXCEPT !.pc = "loop", !.full_path = TerraformWorkspace]
       ELSE LET validated_path == validate_and_normalize_path(gw.path, links)
            IN  IF validated_path = NoPath
                THEN GwReturnError("Invalid path: access outside workspace is not allowed")
                ELSE gw' = [gw EXCEPT !.pc = "loop",
                               !.full_path = IF HasScheme(validated_path)
                                             THEN <<validated_path.scheme \o ":">>
                                                  \o validated_path.comps
                                             ELSE validated_path.comps]

\* ---- terry-form-mcp.py: run_terraform_actions(path, actions, vars) ----
GwEnterBatch ==
    /\ gw.pc = "received"
    /\ gw.server = "run_terraform_actions"
    /\ gw' = [gw EXCEPT !.pc = "loop", !.full_path = gw.path.comps]
    /\ GwEngineIdle
    /\ GwGlobals

\* ---- the loop over the actions ----

\* "run_terraform(full_path, action, vars if action == 'plan' else None)"
GwCall ==
    /\ gw.pc = "loop"
    /\ gw.idx <= Len(gw.actions)
    /\ gw.server \in {"server", "server_enhanced_with_lsp", "run_terraform_actions"}
    /\ LET action == gw.actions[gw.idx]
       IN  inv' = [inv EXCEPT !["i1"] =
                      NewRun("run_terraform", gw.full_path, action,
                             IF action = "plan" THEN gw.vars ELSE EmptyVars)]
    /\ gw' = [gw EXCEPT !.pc = "calling"]
    /\ UNCHANGED <<environ, fs, spawned, fsLog, links, request_validator, REPO_HANDLER, gwFrame>>

\* server_mcp_only: "await terraform_executor.execute_terraform(
\* workspace_path=path, action=action, vars=...)".  execute_terraform has no
\* parameter workspace_path or vars, the call raises TypeError.
GwCallMcpOnly ==
    /\ gw.pc = "loop"
    /\ gw.idx <= Len(gw.actions)
    /\ gw.server = "server_mcp_only"
    /\ gw' = [gw EXCEPT !.pc = "raised", !.error = "TypeError"]
    /\ GwEngineIdle
    /\ GwGlobals

\* Whether the loop stops after this result.
\*   run_terraform_actions: if not result["success"] and action != "fmt": break
\*   server_mcp_only:       if not result.get('success'): break
\*   server, server_enhanced_with_lsp: no break
BreakAfter(server, action, result) ==
    CASE server = "run_terraform_actions" -> ~result.success /\ action /= "fmt"
      [] server = "server_mcp_only"       -> ~result.success
      [] OTHER                            -> FALSE

\* run_terraform returned: results.append(result), then break or go on
GwCollect ==
    /\ gw.pc = "calling"
    /\ inv["i1"].pc = "returned"
    /\ LET result == inv["i1"].response
           results == Append(gw.results, result)
       IN  IF BreakAfter(gw.server, gw.actions[gw.idx], result)
           THEN gw' = [gw EXCEPT !.results = results, !.pc = "returned",
                                !.ret = ResultsRet(gw.server, results)]
           ELSE gw' = [gw EXCEPT !.results = results, !.pc = "loop", !.idx = @ + 1]
    /\ inv' = [inv EXCEPT !["i1"] = IdleRun]
    /\ UNCHANGED <<environ, fs, spawned, fsLog, links, request_validator, REPO_HANDLER, gwFrame>>

\* run_terraform raised: the decorator of the enhanced server catches the
\* exception ("Tool execution failed"), the other callers let it through.
GwEngineRaised ==
    /\ gw.pc = "calling"
    /\ inv["i1"].pc = "raised"
    /\ IF gw.server = "server_enhanced_with_lsp"
       THEN GwReturnError("Tool execution failed")
       ELSE gw' = [gw EXCEPT !.pc = "raised", !.error = inv["i1"].error]
    /\ inv' = [inv EXCEPT !["i1"] = IdleRun]
    /\ UNCHANGED <<environ, fs, spawned, fsLog, links, request_validator, REPO_HANDLER, gwFrame>>

\* the loop is exhausted: the results are returned
GwReturn ==
    /\ gw.pc = "loop"
    /\ gw.idx > Len(gw.actions)
    /\ gw' = [gw EXCEPT !.pc = "returned", !.ret = ResultsRet(gw.server, gw.results)]
    /\ GwEngineIdle
    /\ GwGlobals

(* IDLE VALUES                                                             *)
(***************************************************************************)
\* A specification that does not drive a component keeps it idle.
PathIdle ==
    /\ pathArg = NoPath
    /\ pathFn = "none"
    /\ pathRet = NoPath

InitFs(projFiles) ==
    (<<"mnt", "workspace">> :> {"README"}) @@
    (ProjDir :> projFiles) @@
    (EtcDir :> {"passwd"})

EngIdle ==
    /\ environ = [n \in {} |-> <<>>]
    /\ fs = InitFs({"main.tf"})
    /\ inv = [r \in {"i1"} |-> IdleRun]
    /\ spawned = <<>>
    /\ fsLog = <<>>

NoRequest == Request(<<>>, NoParams, FALSE)

ValIdle ==
    /\ valReq = NoRequest
    /\ valFn = "none"
    /\ valRet = Verdict(FALSE, "none")
    /\ sanitized = NoParams

GwIdle ==
    /\ gw = IdleGw
    /\ request_validator = "loaded"
    /\ REPO_HANDLER = "None"

\* ---- the tools and the LSP client at rest ----
IdleTool == [name |-> "none", arg |-> "none", loc |-> NoPath, pc |-> "idle",
             touched |-> <<"none">>, error |-> ""]

ToolIdle ==
    /\ toolCall = IdleTool
    /\ lsp_client = "None"
    /\ lspClients = [c \in {} |-> 0]
    /\ lspCalls = [c \in {} |-> 0]

NoParseIn == [plan_exists |-> FALSE, show |-> "none", doc |-> NoDoc, stdout |-> <<>>]

ParseIdle ==
    /\ parseIn = NoParseIn
    /\ parseFn = "none"
    /\ parseRet = NoPlanData

(***************************************************************************)
(* TOOLS OF THE ENHANCED SERVER that take a location                       *)
(* (server_enhanced_with_lsp.py): the validate_request wrapper and the     *)
(* first filesystem access of the tool body                                *)
(***************************************************************************)
\* the characters of a caller path: its components joined by "/", after the
\* "scheme://" of a scheme-prefixed one
RECURSIVE JoinComps(_)
JoinComps(comps) ==
    IF comps = <<>> THEN <<>>
    ELSE (IF Head(comps) = ".." THEN <<".", ".">> ELSE <<Head(comps)>>)
         \o (IF Len(comps) > 1 THEN <<"/">> ELSE <<>>)
         \o JoinComps(Tail(comps))

PathChars(path) ==
    (IF HasScheme(path) THEN <<path.scheme, ":", "/", "/">> ELSE <<>>)
    \o (IF path.abs THEN <<"/">> ELSE <<>>)
    \o JoinComps(path.comps)

NewTool(name, arg, loc) ==
    [IdleTool EXCEPT !.name = name, !.arg = arg, !.loc = loc, !.pc = "received"]

\* validate_request(tool_name).wrapper / async_wrapper, up to the call of
\* the tool: the request validator when it is loaded, then validate_safe_path
\* when the keyword arguments have a key "path".
ToolWrapper ==
    /\ toolCall.pc = "received"
    /\ LET kwargs == (toolCall.arg :> PathChars(toolCall.loc))
       IN  IF request_validator = "loaded"
              /\ ~validate_request(WrapperRequest(toolCall.name, kwargs)).valid
           THEN toolCall' = [toolCall EXCEPT !.pc = "returned", !.error = "Validation failed"]
           ELSE IF toolCall.arg = "path" /\ ~validate_safe_path(toolCall.loc, links)
           THEN toolCall' = [toolCall EXCEPT !.pc = "returned",
                                !.error = "Invalid path: Access outside workspace is not allowed"]
           ELSE toolCall' = [toolCall EXCEPT !.pc = "body"]
    /\ UNCHANGED <<pathVars, engVars, valVars, gwVars, parseVars,
                   lsp_client, lspClients, lspCalls>>

\* The tool body: str(Path("/mnt/workspace") / location), then
\* os.path.exists (and open, for terry_file_check) at that path; the
\* operating system follows links and "..".
ToolBody ==
    /\ toolCall.pc = "body"
    /\ toolCall' = [toolCall EXCEPT !.pc = "returned",
                       !.touched = resolve(full_path(toolCall.loc), links)]
    /\ UNCHANGED <<pathVars, engVars, valVars, gwVars, parseVars,
                   lsp_client, lspClients, lspCalls>>

(***************************************************************************)
(* LSP CLIENT SINGLETON  (terraform_lsp_client.get_lsp_client)             *)
(* A call is [ws, pc, ret]: ws the workspace path or "None"; a client is   *)
(* named after the call that constructed it.                               *)
(***************************************************************************)
LspCall(ws) == [ws |-> ws, pc |-> "start", ret |-> "None"]

\* TerraformLSPClient(): initialized = False
TerraformLSPClient == [initialized |-> FALSE, workspace |-> "None"]

\* get_lsp_client up to its first await or its return
GetLspClientEnter(c) ==
    /\ lspCalls[c].pc = "start"
    /\ IF lsp_client = "None"
       THEN /\ lspClients' = lspClients @@ (c :> TerraformLSPClient)
            /\ lsp_client' = c
            /\ IF lspCalls[c].ws /= "None"
               THEN lspCalls' = [lspCalls EXCEPT ![c].pc = "starting"]
               ELSE lspCalls' = [lspCalls EXCEPT ![c].pc = "returned", ![c].ret = c]
       ELSE /\ lspCalls' = [lspCalls EXCEPT ![c].pc = "returned", ![c].ret = lsp_client]
            /\ UNCHANGED <<lsp_client, lspClients>>
    /\ UNCHANGED <<pathVars, engVars, valVars, gwVars, parseVars, toolCall>>

\* "success = await _lsp_client.start_terraform_ls(workspace_path)" ends:
\* initialized or not; on failure the singleton is reset and RuntimeError
\* raised, else "return _lsp_client".
StartTerraformLsDone(c) ==
    /\ lspCalls[c].pc = "starting"
    /\ \/ /\ lspClients' = [lspClients EXCEPT
                               ![c] = [initialized |-> TRUE, workspace |-> lspCalls[c].ws]]
          /\ lspCalls' = [lspCalls EXCEPT ![c].pc = "returned", ![c].ret = lsp_client]
          /\ UNCHANGED lsp_client
       \/ /\ lsp_client' = "None"
          /\ lspCalls' = [lspCalls EXCEPT ![c].pc = "raised"]
          /\ UNCHANGED lspClients
    /\ UNCHANGED <<pathVars, engVars, valVars, gwVars, parseVars, toolCall>>

(***************************************************************************)
(* SpecTools: one call of a tool that takes a location                     *)
(***************************************************************************)
LocationTools ==
    { [name |-> "terry_workspace_info", arg |-> "path"],
      [name |-> "terry_file_check", arg |-> "file_path"],
      [name |-> "terry_lsp_init", arg |-> "workspace_path"] }

InitTools ==
    /\ links = EngineLinks
    /\ PathIdle
    /\ EngIdle
    /\ ValIdle
    /\ ParseIdle
    /\ gw = IdleGw
    /\ request_validator \in {"loaded", "None"}
    /\ REPO_HANDLER = "None"
    /\ \E t \in LocationTools, loc \in PlainPaths : toolCall = NewTool(t.name, t.arg, loc)
    /\ lsp_client = "None"
    /\ lspClients = [c \in {} |-> 0]
    /\ lspCalls = [c \in {} |-> 0]

NextTools ==
    \/ ToolWrapper
    \/ ToolBody

SpecTools == InitTools /\ [][NextTools]_vars

(***************************************************************************)
(* SpecLsp: three concurrent calls of get_lsp_client, their steps          *)
(* interleaved in every order                                              *)
(***************************************************************************)
LspWorkspaces == {"None", "w1", "w2"}

InitLsp ==
    /\ links = EngineLinks
    /\ PathIdle
    /\ EngIdle
    /\ ValIdle
    /\ GwIdle
    /\ ParseIdle
    /\ toolCall = IdleTool
    /\ lsp_client = "None"
    /\ lspClients = [c \in {} |-> 0]
    /\ \E a \in LspWorkspaces, b \in LspWorkspaces, d \in LspWorkspaces :
          lspCalls = ("c1" :> LspCall(a)) @@ ("c2" :> LspCall(b)) @@ ("c3" :> LspCall(d))

NextLsp ==
    \/ GetLspClientEnter("c1")
    \/ StartTerraformLsDone("c1")
    \/ GetLspClientEnter("c2")
    \/ StartTerraformLsDone("c2")
    \/ GetLspClientEnter("c3")
    \/ StartTerraformLsDone("c3")

SpecLsp == InitLsp /\ [][NextLsp]_vars

(***************************************************************************)
(* SpecPath: the path sandbox on its own                                   *)
(***************************************************************************)
InitPath ==
    /\ links \in LinkTables
    /\ EngIdle
    /\ ValIdle
    /\ GwIdle
    /\ ParseIdle
    /\ ToolIdle
    /\ pathArg \in PlainPaths \cup SchemePaths
    /\ pathFn = "none"
    /\ pathRet = NoPath

CallValidateAndNormalizePath ==
    /\ pathFn = "none"
    /\ pathFn' = "validate_and_normalize_path"
    /\ pathRet' = validate_and_normalize_path(pathArg, links)
    /\ UNCHANGED <<links, pathArg, engVars, valVars, gwVars, parseVars, toolVars>>

CallValidateSafePath ==
    /\ pathFn = "none"
    /\ pathFn' = "validate_safe_path"
    /\ pathRet' = validate_safe_path(pathArg, links)
    /\ UNCHANGED <<links, pathArg, engVars, valVars, gwVars, parseVars, toolVars>>

NextPath ==
    \/ CallValidateAndNormalizePath
    \/ CallValidateSafePath

SpecPath == InitPath /\ [][NextPath]_vars

(***************************************************************************)
(* SpecRun: the execution engine on its own (one invocation)               *)
(***************************************************************************)
EngineFns ==
    {"run_terraform", "TerraformExecutor.run_terraform", "TerraformExecutor.execute_terraform"}

EnginePaths ==
    { ProjDir, <<"mnt", "workspace", "nope">>, <<"mnt", "workspace", "README">> }

EngineActions == allowed_actions \cup {"destroy", "frobnicate"}

GoodVars == (<<"k">> :> <<"a">>)
BadKeyVars == (<<"k", " ">> :> <<"a">>)
MetaVars == (<<"k">> :> <<"a", ";">>)

Environs ==
    { [n \in S \cup T |->
          IF n = "MAX_OPERATION_TIMEOUT" THEN (IF n \in T THEN t ELSE <<>>)
          ELSE <<"v">>] :
        S \in SUBSET {"AWS_SECRET_ACCESS_KEY", "SECRET_TOKEN", "TF_INPUT"},
        T \in SUBSET {"MAX_OPERATION_TIMEOUT"},
        t \in {<<"5">>, <<"a">>} }

InitRun ==
    /\ links = EngineLinks
    /\ PathIdle
    /\ environ \in Environs
    /\ \E pf \in {{"main.tf"}, {"main.tf", "tfplan"}} : fs = InitFs(pf)
    /\ \E fn \in EngineFns, p \in EnginePaths, a \in EngineActions,
          v \in {EmptyVars, GoodVars, BadKeyVars} :
            inv = [r \in {"i1"} |-> NewRun(fn, p, a, v)]
    /\ spawned = <<>>
    /\ fsLog = <<>>
    /\ ValIdle
    /\ GwIdle
    /\ ParseIdle
    /\ ToolIdle

NextRun ==
    \/ RunBegin("i1")
    \/ RunSpawn("i1")
    \/ ChildOutput("i1")
    \/ ChildWritesPlan("i1")
    \/ ChildExit("i1")
    \/ RunTimeout("i1")
    \/ RunCollect("i1")
    \/ RunShowDone("i1")
    \/ RunFinally("i1")
    \/ ExecRunBegin("i1")
    \/ ExecRunTimeout("i1")
    \/ ExecAsyncBegin("i1")
    \/ ExecCollect("i1")

SpecRun == InitRun /\ [][NextRun]_vars

(***************************************************************************)
(* SpecCancel: one engine invocation that may be cancelled while a child   *)
(* of it runs                                                              *)
(***************************************************************************)
InitCancel ==
    /\ links = EngineLinks
    /\ PathIdle
    /\ ValIdle
    /\ GwIdle
    /\ ParseIdle
    /\ ToolIdle
    /\ environ = [n \in {} |-> <<>>]
    /\ fs = InitFs({"main.tf"})
    /\ \E fn \in EngineFns, a \in {"plan", "validate"}, v \in {EmptyVars, GoodVars} :
            inv = [r \in {"i1"} |-> NewRun(fn, ProjDir, a, v)]
    /\ spawned = <<>>
    /\ fsLog = <<>>

NextCancel ==
    \/ RunBegin("i1")
    \/ RunSpawn("i1")
    \/ ChildOutput("i1")
    \/ ChildWritesPlan("i1")
    \/ ChildExit("i1")
    \/ RunTimeout("i1")
    \/ RunCollect("i1")
    \/ RunShowDone("i1")
    \/ RunCancel("i1")
    \/ RunFinally("i1")
    \/ ExecRunBegin("i1")
    \/ ExecRunTimeout("i1")
    \/ ExecRunCancel("i1")
    \/ ExecAsyncBegin("i1")
    \/ ExecAsyncCancel("i1")
    \/ ExecCollect("i1")

SpecCancel == InitCancel /\ [][NextCancel]_vars

(***************************************************************************)
(* SpecLive: one engine invocation whose child may never terminate.  The   *)
(* interpreter keeps running the invocation's own steps and the timer of   *)
(* a subprocess.run(timeout=...) fires while the child still runs, so      *)
(* these steps are weakly fair; no step of the child is.                   *)
(***************************************************************************)
InitLive ==
    /\ links = EngineLinks
    /\ PathIdle
    /\ ValIdle
    /\ GwIdle
    /\ ParseIdle
    /\ ToolIdle
    /\ \E T \in SUBSET {"MAX_OPERATION_TIMEOUT"} : environ = [n \in T |-> <<"5">>]
    /\ fs = InitFs({"main.tf"})
    /\ \E fn \in EngineFns, a \in {"plan", "validate"}, v \in {EmptyVars, GoodVars} :
            inv = [r \in {"i1"} |-> NewRun(fn, ProjDir, a, v)]
    /\ spawned = <<>>
    /\ fsLog = <<>>

EngineFairness ==
    /\ WF_vars(RunBegin("i1"))
    /\ WF_vars(RunSpawn("i1"))
    /\ WF_vars(RunTimeout("i1"))
    /\ WF_vars(RunCollect("i1"))
    /\ WF_vars(RunShowDone("i1"))
    /\ WF_vars(RunFinally("i1"))
    /\ WF_vars(ExecRunBegin("i1"))
    /\ WF_vars(ExecRunTimeout("i1"))
    /\ WF_vars(ExecAsyncBegin("i1"))
    /\ WF_vars(ExecCollect("i1"))

SpecLive == InitLive /\ [][NextRun]_vars /\ EngineFairness

(***************************************************************************)
(* SpecArgs: one plan invocation with one variable binding whose value may *)
(* need quoting                                                            *)
(***************************************************************************)
ArgValues == {<<"a">>, <<"a", " ">>, <<"a", "=">>, <<"SQ">>, <<"$", "a">>, <<>>}

InitArgs ==
    /\ links = EngineLinks
    /\ PathIdle
    /\ ValIdle
    /\ GwIdle
    /\ ParseIdle
    /\ ToolIdle
    /\ environ = [n \in {} |-> <<>>]
    /\ fs = InitFs({"main.tf"})
    /\ \E fn \in EngineFns, val \in ArgValues :
            inv = [r \in {"i1"} |-> NewRun(fn, ProjDir, "plan", (<<"k">> :> val))]
    /\ spawned = <<>>
    /\ fsLog = <<>>

SpecArgs == InitArgs /\ [][NextRun]_vars

(***************************************************************************)
(* SpecValidator: the validation functions on their own                    *)
(***************************************************************************)
ValKeys == {<<"k">>, <<"k", " ">>, <<"_">>, <<"1", "k">>, <<"U+00E9">>, <<>>}
ValValues == SeqsUpTo(Chars, MaxValLen)
ValPaths == {<<"a">>, <<".", ".", "/", "a">>, <<"a", ";">>, <<"a", ">">>, <<>>}
ValMethods ==
    {<<"terry">>, <<"tools", "/", "call">>, <<"terry_lsp_init">>, <<"github_repo_info">>,
     <<"terry_validate">>, <<"deploy">>}

\* terry requests that differ in one variable binding only
VarRequests ==
    { Request(<<"terry">>, ("path" :> <<"a">>) @@ ("vars" :> (k :> v)), FALSE) :
        k \in ValKeys, v \in ValValues }

\* requests that differ in the envelope, the tool and the other parameters
ShapeRequests ==
    { Request(m, p @@ a @@ x, e) :
        m \in ValMethods,
        p \in {NoParams} \cup {("path" :> s) : s \in ValPaths},
        a \in {NoParams, ("actions" :> <<"plan">>), ("actions" :> <<"init", "destroy">>),
               ("auto_approve" :> TRUE), ("vars" :> (<<"k">> :> <<"$", "{">>))},
        x \in {NoParams, ("bogus" :> <<"a">>), ("file_path" :> <<"a">>)},
        e \in BOOLEAN }

InitValidator ==
    /\ links = EngineLinks
    /\ PathIdle
    /\ EngIdle
    /\ GwIdle
    /\ ParseIdle
    /\ ToolIdle
    /\ valReq \in VarRequests \cup ShapeRequests
    /\ valFn = "none"
    /\ valRet = Verdict(FALSE, "none")
    /\ sanitized = NoParams

CallValidateRequest ==
    /\ valFn = "none"
    /\ valFn' = "validate_request"
    /\ valRet' = validate_request(valReq)
    /\ UNCHANGED <<valReq, sanitized, pathVars, engVars, gwVars, parseVars, toolVars>>

\* the gateway calls validate_terraform_vars only "if vars:"
CallValidateTerraformVars ==
    /\ valFn = "none"
    /\ "vars" \in DOMAIN valReq.params
    /\ valReq.params["vars"] /= EmptyVars
    /\ valFn' = "validate_terraform_vars"
    /\ valRet' = validate_terraform_vars(valReq.params["vars"])
    /\ UNCHANGED <<valReq, sanitized, pathVars, engVars, gwVars, parseVars, toolVars>>

\* sanitize_params(method, params) for a method that is one name
CallSanitizeParams ==
    /\ valFn = "none"
    /\ Len(valReq.method) = 1
    /\ valFn' = "sanitize_params"
    /\ sanitized' = sanitize_params(valReq.method[1], valReq.params)
    /\ UNCHANGED <<valReq, valRet, pathVars, engVars, gwVars, parseVars, toolVars>>

NextValidator ==
    \/ CallValidateRequest
    \/ CallValidateTerraformVars
    \/ CallSanitizeParams

SpecValidator == InitValidator /\ [][NextValidator]_vars

(***************************************************************************)
(* SpecParse: the parsing functions on their own                           *)
(***************************************************************************)
ActionLists ==
    {<<>>, <<"create">>, <<"update">>, <<"delete">>, <<"delete", "create">>,
     <<"no-op">>}

GoodChange(address, type, name, actions) ==
    [kind |-> "object", address |-> address, type |-> type, name |-> name,
     change |-> "object", actions |-> actions]

Changes ==
    {GoodChange("aws_vpc.a", "aws_vpc", "a", acts) : acts \in ActionLists}
    \cup {GoodChange("aws_s3.b", "aws_s3", "b", acts) : acts \in {<<"create">>, <<"update">>}}
    \cup {GoodChange("absent", "absent", "absent", <<"create">>),
          [GoodChange("aws_vpc.a", "aws_vpc", "a", <<>>) EXCEPT !.change = "missing"],
          [GoodChange("aws_vpc.a", "aws_vpc", "a", <<>>) EXCEPT !.change = "null"],
          [GoodChange("absent", "absent", "absent", <<>>) EXCEPT !.kind = "scalar"]}

PlanDocs ==
    {[shape |-> sh, rc |-> "missing", changes |-> <<>>] :
        sh \in {"undecodable", "array", "object"}}
    \cup {[shape |-> "object", rc |-> "null", changes |-> <<>>]}
    \cup {[shape |-> "object", rc |-> "list", changes |-> cs] :
            cs \in SeqsUpTo(Changes, MaxChanges)}

Tokens == {"2", "0", "12", " to add", " to change", " to destroy", "Plan:"}

ShowOutcomes == {"ok", "nonzero", "timeout", "oserror"}

InitParse ==
    /\ links = EngineLinks
    /\ PathIdle
    /\ ToolIdle
    /\ EngIdle
    /\ ValIdle
    /\ GwIdle
    /\ \/ \E d \in PlanDocs :
             parseIn = [plan_exists |-> TRUE, show |-> "ok", doc |-> d, stdout |-> <<>>]
       \/ \E e \in BOOLEAN, o \in ShowOutcomes :
             parseIn = [plan_exists |-> e, show |-> o,
                        doc |-> [shape |-> "object", rc |-> "list",
                                 changes |-> <<GoodChange("aws_vpc.a", "aws_vpc", "a",
                                                          <<"create">>)>>],
                        stdout |-> <<>>]
       \/ \E t \in SeqsUpTo(Tokens, MaxTokens) :
             parseIn = [plan_exists |-> FALSE, show |-> "none", doc |-> NoDoc, stdout |-> t]
    /\ parseFn = "none"
    /\ parseRet = NoPlanData

CallParsePlanOutput ==
    /\ parseFn = "none"
    /\ parseIn.show /= "none"
    /\ parseFn' = "parse_plan_output"
    /\ parseRet' = parse_plan_output(parseIn.plan_exists, parseIn.show, parseIn.doc)
    /\ UNCHANGED <<parseIn, pathVars, engVars, valVars, gwVars, toolVars>>

CallParseTextPlanSummary ==
    /\ parseFn = "none"
    /\ parseIn.show = "none"
    /\ parseFn' = "parse_text_plan_summary"
    /\ parseRet' = PlanData(parse_text_plan_summary(parseIn.stdout), <<>>)
    /\ UNCHANGED <<parseIn, pathVars, engVars, valVars, gwVars, toolVars>>

NextParse ==
    \/ CallParsePlanOutput
    \/ CallParseTextPlanSummary

SpecParse == InitParse /\ [][NextParse]_vars

(***************************************************************************)
(* SpecConc: two concurrent invocations of run_terraform, "i1" and "i2",   *)
(* their steps interleaved in every order                                  *)
(***************************************************************************)
DataDir == <<"mnt", "workspace", "data">>

\* an invocation whose child prints the plan summary line and whose plan
\* shows one resource to create
ConcRun(path, action, tf_vars) ==
    [NewRun("run_terraform", path, action, tf_vars) EXCEPT
        !.chunks = {<<"2", " to add">>},
        !.docs = {[shape |-> "object", rc |-> "list",
                   changes |-> <<[kind |-> "object", address |-> "aws_vpc.a",
                                  type |-> "aws_vpc", name |-> "a",
                                  change |-> "object", actions |-> <<"create">>]>>]}]

InitConc ==
    /\ links = EngineLinks
    /\ PathIdle
    /\ ValIdle
    /\ GwIdle
    /\ ParseIdle
    /\ ToolIdle
    /\ environ = [n \in {} |-> <<>>]
    /\ fs = InitFs({"main.tf"}) @@ (DataDir :> {"main.tf"})
    /\ \E a2 \in {"plan", "validate"},
          p2 \in {ProjDir, DataDir, <<"mnt", "workspace", "in">>} :
            inv = ("i1" :> ConcRun(ProjDir, "plan", GoodVars)) @@
                  ("i2" :> ConcRun(p2, a2, IF a2 = "plan" THEN GoodVars ELSE EmptyVars))
    /\ spawned = <<>>
    /\ fsLog = <<>>

NextConc ==
    \/ RunBegin("i1")
    \/ RunSpawn("i1")
    \/ ChildOutput("i1")
    \/ ChildWritesPlan("i1")
    \/ ChildExit("i1")
    \/ RunTimeout("i1")
    \/ RunCollect("i1")
    \/ RunShowDone("i1")
    \/ RunFinally("i1")
    \/ RunBegin("i2")
    \/ RunSpawn("i2")
    \/ ChildOutput("i2")
    \/ ChildWritesPlan("i2")
    \/ ChildExit("i2")
    \/ RunTimeout("i2")
    \/ RunCollect("i2")
    \/ RunShowDone("i2")
    \/ RunFinally("i2")

SpecConc == InitConc /\ [][NextConc]_vars

(***************************************************************************)
(* SpecGateway: one gateway invocation and the engine calls it makes       *)
(***************************************************************************)
GwActionNames == {"fmt", "plan", "show", "destroy"}
GwBatches == SeqsUpTo(GwActionNames, MaxBatch) \ {<<>>}

RelPath(comps) == [scheme |-> "none", abs |-> FALSE, comps |-> comps]
GwPaths ==
    { RelPath(<<"proj">>), RelPath(<<"..", "..", "etc">>),
      [scheme |-> "github", abs |-> FALSE, comps |-> <<"o", "r">>] }

\* the full paths run_terraform_actions is called with
BatchPaths == { AbsPath(ProjDir), AbsPath(<<"mnt", "workspace", "nope">>) }

GwEnvirons ==
    { [n \in {} |-> <<>>], ("MAX_OPERATION_TIMEOUT" :> <<"a">>) }

InitGateway ==
    /\ links = EngineLinks
    /\ PathIdle
    /\ ValIdle
    /\ ParseIdle
    /\ ToolIdle
    /\ fs = InitFs({"main.tf"})
    /\ inv = [r \in {"i1"} |-> IdleRun]
    /\ spawned = <<>>
    /\ fsLog = <<>>
    /\ \E b \in GwBatches :
          \/ /\ \E p \in GwPaths, v \in {EmptyVars, GoodVars} :
                   gw = NewGw("server", p, b, v, FALSE, FALSE)
             /\ environ \in GwEnvirons
             /\ request_validator = "loaded"
             /\ REPO_HANDLER = "None"
          \/ /\ \E p \in GwPaths, v \in {EmptyVars, MetaVars} :
                   gw = NewGw("server_enhanced_with_lsp", p, b, v, FALSE, FALSE)
             /\ environ \in GwEnvirons
             /\ request_validator \in {"loaded", "None"}
             /\ REPO_HANDLER = "None"
          \/ /\ \E p \in BatchPaths, v \in {EmptyVars, GoodVars} :
                   gw = NewGw("run_terraform_actions", p, b, v, FALSE, FALSE)
             /\ environ \in GwEnvirons
             /\ request_validator = "loaded"
             /\ REPO_HANDLER = "None"
          \/ /\ \E p \in GwPaths, v \in {EmptyVars, GoodVars, MetaVars},
                   aa \in BOOLEAN, dd \in BOOLEAN :
                   gw = NewGw("server_mcp_only", p, b, v, aa, dd)
             /\ environ = [n \in {} |-> <<>>]
             /\ request_validator = "loaded"
             /\ REPO_HANDLER \in {"handler", "None"}

NextGateway ==
    \/ GwEnterServer
    \/ GwEnterEnhanced
    \/ GwEnterMcpOnly
    \/ GwEnterBatch
    \/ GwCall
    \/ GwCallMcpOnly
    \/ GwCollect
    \/ GwEngineRaised
    \/ GwReturn
    \/ RunBegin("i1")
    \/ RunSpawn("i1")
    \/ ChildOutput("i1")
    \/ ChildWritesPlan("i1")
    \/ ChildExit("i1")
    \/ RunTimeout("i1")
    \/ RunCollect("i1")
    \/ RunShowDone("i1")
    \/ RunFinally("i1")

SpecGateway == InitGateway /\ [][NextGateway]_vars

(***************************************************************************)
(* C1                                                                      *)
(***************************************************************************)
\* The location a caller-supplied path denotes once the sandbox accepted it:
\* the returned path for validate_and_normalize_path, the path joined to the
\* workspace root for validate_safe_path (the caller of validate_safe_path
\* goes on to use Path("/mnt/workspace") / path).
PathAccepted ==
    \/ pathFn = "validate_and_normalize_path" /\ pathRet /= NoPath
    \/ pathFn = "validate_safe_path" /\ pathRet = TRUE

PathUsed ==
    IF pathFn = "validate_and_normalize_path" THEN pathRet.comps
    ELSE target_path(pathArg)

DotDotEtc == [scheme |-> "none", abs |-> FALSE, comps |-> <<"..", "..", "etc">>]

\* C1: for every path without a scheme prefix the sandbox either rejects it
\* or accepts a path whose canonical form equals or descends from the
\* canonical workspace root; an accepted path denotes the very location the
\* caller named (an escaping path is never clamped to the root), and
\* '../../etc' is rejected.
C1_PathSandboxContains ==
    (pathFn /= "none" /\ ~HasScheme(pathArg)) =>
        /\ PathAccepted =>
              /\ IsPrefix(resolve(WORKSPACE_ROOT, links), resolve(PathUsed, links))
              /\ resolve(PathUsed, links) = resolve(target_path(pathArg), links)
        /\ ~IsPrefix(resolve(WORKSPACE_ROOT, links),
                     resolve(target_path(pathArg), links)) => ~PathAccepted
        /\ pathArg = DotDotEtc => ~PathAccepted

\* Witness: a path through the escaping symlink has been rejected by
\* validate_and_normalize_path.
C1_Witness ==
    /\ pathFn = "validate_and_normalize_path"
    /\ pathArg = [scheme |-> "none", abs |-> FALSE, comps |-> <<"out">>]
    /\ <<"mnt", "workspace", "out">> \in DOMAIN links
    /\ pathRet = NoPath

(***************************************************************************)
(* C2 .. C10                                                               *)
(***************************************************************************)
TerryServers == {"server", "server_enhanced_with_lsp", "server_mcp_only"}

HasBlockedAction == \E i \in DOMAIN gw.actions : gw.actions[i] \in BLOCKED_ACTIONS

\* the subcommand of a spawned command line "terraform <action> ..."
Subcommand(p) == p.cmd.argv[2]

\* C2: in the terry tool of every server an invocation with a block-listed
\* action (apply, destroy, import, taint, untaint) is rejected with an
\* error, and no terraform process is ever spawned for a block-listed action.
C2_BlockedNeverSpawned ==
    gw.server \in TerryServers =>
        /\ \A i \in DOMAIN spawned : Subcommand(spawned[i]) \notin BLOCKED_ACTIONS
        /\ (HasBlockedAction /\ gw.pc = "returned") => gw.ret.kind = "error"

\* C3: no command line "terraform <action> ..." is spawned by an engine
\* entry point for an action outside the allow-list of eight actions.
C3_UnknownNeverSpawned ==
    \A i \in DOMAIN spawned :
        spawned[i].kind = "action" => Subcommand(spawned[i]) \in allowed_actions

\* C4: a request or a variables dictionary with a value that contains one of
\* $ ` ; & | > < ( ) { } is rejected by validate_request and by
\* validate_terraform_vars.
HasMetaValue(tf_vars) ==
    \E k \in DOMAIN tf_vars : \E i \in DOMAIN tf_vars[k] : tf_vars[k][i] \in ShellMeta

C4_MetaValueRejected ==
    (valFn /= "none" /\ "vars" \in DOMAIN valReq.params
        /\ HasMetaValue(valReq.params["vars"])) => ~valRet.valid

\* The gates of the specification: escalation flags, the allow-list of
\* actions, the variable bindings, the path sandbox.
ValidBinding(k, v) == VarKeyPattern(k) /\ \A i \in DOMAIN v : v[i] \notin ShellMeta

PathEscapes(path) ==
    ~HasScheme(path) /\
    ~IsPrefix(resolve(WORKSPACE_ROOT, links), resolve(target_path(path), links))

SomeGateFails ==
    \/ gw.auto_approve
    \/ gw.destroy
    \/ \E i \in DOMAIN gw.actions : gw.actions[i] \notin allowed_actions
    \/ \E k \in DOMAIN gw.vars : ~ValidBinding(k, gw.vars[k])
    \/ PathEscapes(gw.path)

\* C5: when a validation gate of a terry invocation fails, no terraform
\* process has been spawned and no file has been created or deleted, for any
\* action of the batch.
C5_NoPartialExecution ==
    (gw.server \in TerryServers /\ SomeGateFails) => (spawned = <<>> /\ fsLog = <<>>)

LeftBehind(r) ==
    { fsLog[i].name : i \in { j \in DOMAIN fsLog :
          /\ fsLog[j].inv = r /\ fsLog[j].op = "create"
          /\ fsLog[j].name \in fs[fsLog[j].dir] } }

\* C7: an action whose child ran into the timeout gives success = false, a
\* timed-out message, the stdout captured so far, the child killed and no
\* artifact of the invocation left.
C7_TimeoutResult ==
    \A r \in DOMAIN inv :
        (inv[r].child = "killed" /\ inv[r].pc = "returned") =>
            /\ ~inv[r].response.success
            /\ inv[r].response.stderr \in {"Operation timed out", "Command timed out"}
            /\ inv[r].response.stdout = inv[r].stdout
            /\ LeftBehind(r) = {}

\* C8: no engine entry point and no terry tool raises an exception to its
\* caller.
C8_NeverRaises ==
    /\ gw.pc /= "raised"
    /\ \A r \in DOMAIN inv : inv[r].pc /= "raised"

\* C9: every child process gets exactly the allow-listed ambient variables
\* that are set, overridden by TF_IN_AUTOMATION=true, TF_INPUT=false,
\* CHECKPOINT_DISABLE=true.
C9_ControlledEnvOnly ==
    \A i \in DOMAIN spawned :
        LET e == spawned[i].env
            forced == {"TF_IN_AUTOMATION", "TF_INPUT", "CHECKPOINT_DISABLE"}
        IN  /\ DOMAIN e = (DOMAIN environ \cap ALLOWED_ENV_VARS) \cup forced
            /\ e["TF_IN_AUTOMATION"] = <<"true">>
            /\ e["TF_INPUT"] = <<"false">>
            /\ e["CHECKPOINT_DISABLE"] = <<"true">>
            /\ \A n \in DOMAIN e \ forced : e[n] = environ[n]

\* C10: the returned results are those of the requested actions in order,
\* up to and including the first failed action other than fmt.
C10_BatchPrefix ==
    (gw.pc = "returned" /\ gw.ret.kind = "results") =>
        LET n == Len(gw.results) IN
        /\ n <= Len(gw.actions)
        /\ \A i \in 1..n : gw.results[i].action = gw.actions[i]
        /\ \A i \in 1..(n - 1) : gw.results[i].success \/ gw.actions[i] = "fmt"
        /\ n < Len(gw.actions) =>
               (n >= 1 /\ ~gw.results[n].success /\ gw.actions[n] /= "fmt")

\* C11: a batch response carries the results in execution order and an
\* aggregate success that is true exactly when every result has success=true.
C11_AggregateSuccess ==
    (gw.pc = "returned" /\ gw.ret.kind = "results") =>
        /\ \A i \in DOMAIN gw.results : gw.results[i].action = gw.actions[i]
        /\ gw.ret.success = all_success(gw.results)

\* The changes of a plan document all have the shape parse_plan_output
\* reads: objects whose change is an object or absent.
WellFormedPlan(doc) ==
    /\ doc.shape = "object"
    /\ doc.rc = "list"
    /\ \A i \in DOMAIN doc.changes : ~change_raises(doc.changes[i])

CountWith(doc, act) ==
    Cardinality({i \in DOMAIN doc.changes : act \in Range(change_actions(doc.changes[i]))})

\* C12: for a decodable plan with a list of resource changes,
\* parse_plan_output returns one resources entry {address, type, name,
\* actions} per change, in the same order, and add / change / destroy equal
\* to the number of changes whose actions contain create / update / delete.
C12_PlanSummaryCounts ==
    (parseFn = "parse_plan_output" /\ parseIn.plan_exists /\ parseIn.show = "ok"
     /\ WellFormedPlan(parseIn.doc)) =>
        LET doc == parseIn.doc IN
        /\ ~parseRet.none
        /\ Len(parseRet.resources) = Len(doc.changes)
        /\ \A i \in DOMAIN doc.changes :
              /\ parseRet.resources[i].address = get(doc.changes[i].address)
              /\ parseRet.resources[i].type = get(doc.changes[i].type)
              /\ parseRet.resources[i].name = get(doc.changes[i].name)
              /\ parseRet.resources[i].actions = change_actions(doc.changes[i])
        /\ parseRet.plan_summary.add = CountWith(doc, "create")
        /\ parseRet.plan_summary.change = CountWith(doc, "update")
        /\ parseRet.plan_summary.destroy = CountWith(doc, "delete")

\* a plan of three changes with counts {add: 2, change: 1, destroy: 0}
C12_Witness ==
    /\ parseFn = "parse_plan_output"
    /\ WellFormedPlan(parseIn.doc)
    /\ Len(parseIn.doc.changes) = 3
    /\ parseRet.plan_summary = [add |-> 2, change |-> 1, destroy |-> 0]
    /\ Len(parseRet.resources) = 3

\* run_terraform has built the response of a plan whose process completed
PlanCompleted(r) ==
    /\ inv[r].fn = "run_terraform"
    /\ inv[r].action = "plan"
    /\ inv[r].child = "exited"
    /\ inv[r].pc \in {"finally", "returned"}

\* the decoded show output has the shape of a plan: an object whose
\* resource_changes is absent or a list of well-formed changes
DecodesToPlan(doc) ==
    /\ doc.shape = "object"
    /\ doc.rc \in {"missing", "list"}
    /\ \A i \in DOMAIN doc.changes : ~change_raises(doc.changes[i])

MachineSummary(r, resp) ==
    /\ resp.has_resources
    /\ resp.plan_summary = [add |-> CountWith(inv[r].show_doc, "create"),
                            change |-> CountWith(inv[r].show_doc, "update"),
                            destroy |-> CountWith(inv[r].show_doc, "delete")]
    /\ Len(resp.resources) = Len(inv[r].show_doc.changes)

TextSummary(resp) ==
    /\ ~resp.has_resources
    /\ resp.plan_summary = parse_text_plan_summary(resp.stdout)

C14_ParsingNeverChangesOutcome ==
    \A r \in DOMAIN inv :
        (/\ inv[r].fn = "run_terraform"
         /\ inv[r].child = "exited"
         /\ inv[r].pc \in {"finally", "returned"}) =>
            /\ inv[r].response.exit_code = inv[r].exit_code
            /\ inv[r].response.success = (inv[r].exit_code = 0)
            /\ inv[r].response.stdout = inv[r].stdout
            /\ inv[r].response.stderr = "child stderr"

SchemaKeys(tool) == IF tool \in DOMAIN TOOL_SCHEMAS THEN TOOL_SCHEMAS[tool] ELSE {}

\* C15: for every tool name and argument mapping, what sanitize_params
\* returns has no key unknown to the tool's parameter schema and no
\* escalation flag (auto_approve, destroy) that is true.
C15_SanitizeStripsAndDisarms ==
    valFn = "sanitize_params" =>
        /\ DOMAIN sanitized \subseteq SchemaKeys(valReq.method[1])
        /\ \A k \in DOMAIN sanitized \cap {"auto_approve", "destroy"} :
               sanitized[k] = FALSE

\* the four gates of validate_request, each defined where its predecessors passed
EnvelopeOK == MCP_TOOL_CALL_SCHEMA(valReq)
ToolKnown == EnvelopeOK /\ valReq.method[1] \in DOMAIN TOOL_SCHEMAS
ParamsOK == ToolKnown /\ ToolSchemaOK(valReq.method[1], valReq.params)
SecurityOK == ParamsOK /\ security_checks(valReq.method[1], valReq.params)

\* C16: validate_request reports the first failing check in the order
\* envelope schema, tool existence, parameter schema, security heuristics,
\* and returns (True, None) only when all four passed.
C16_FirstFailingGate ==
    valFn = "validate_request" =>
        /\ valRet.valid <=> SecurityOK
        /\ valRet.valid => valRet.reason = "None"
        /\ ~EnvelopeOK => valRet = Verdict(FALSE, "Invalid request structure")
        /\ (EnvelopeOK /\ ~ToolKnown) => valRet = Verdict(FALSE, "Unknown tool")
        /\ (ToolKnown /\ ~ParamsOK) => valRet = Verdict(FALSE, "Invalid parameters")
        /\ (ParamsOK /\ ~SecurityOK) => valRet = Verdict(FALSE, "Security validation failed")

\* a request that fails the parameter schema and the security heuristics
\* is rejected for its parameters
C16_Witness ==
    /\ valFn = "validate_request"
    /\ ToolKnown
    /\ ~ParamsOK
    /\ ~security_checks(valReq.method[1], valReq.params)
    /\ valRet.reason = "Invalid parameters"

\* The three gates in the order of the state machine: request validation
\* (escalation flags, variable bindings), path resolution, policy check.
ValidationFails ==
    \/ gw.auto_approve
    \/ gw.destroy
    \/ \E k \in DOMAIN gw.vars : ~ValidBinding(k, gw.vars[k])

PolicyFails == \E i \in DOMAIN gw.actions : gw.actions[i] \notin allowed_actions

\* the gate an error message of the gateway belongs to
ErrorGate(msg) ==
    CASE msg \in {"auto_approve is blocked for security reasons",
                  "destroy action is blocked for security reasons",
                  "Variable validation failed", "Validation failed"} -> "validation"
      [] msg \in {"Invalid path: access outside workspace is not allowed",
                  "Invalid path: Access outside workspace is not allowed",
                  "Invalid GitHub path format", "workspace preparation failed"} -> "path"
      [] msg \in {"Action is blocked for security reasons", "Unknown action"} -> "policy"
      [] OTHER -> "execution"

EarliestFailingGate ==
    IF ValidationFails THEN "validation"
    ELSE IF PathEscapes(gw.path) THEN "path"
    ELSE IF PolicyFails THEN "policy"
    ELSE "none"

\* C17: an invocation passes request validation, path resolution and the
\* policy check in that order before it executes; one that fails several
\* gates is rejected at the earliest failing one, execution starts only
\* when all three passed, and after execution the outcome is a structured
\* result, never an exception.
C17_GateOrder ==
    gw.server \in {"server_mcp_only", "server_enhanced_with_lsp"} =>
        /\ (gw.pc = "returned" /\ gw.ret.kind = "error" /\ EarliestFailingGate /= "none")
              => ErrorGate(gw.ret.error) = EarliestFailingGate
        /\ gw.pc \in {"loop", "calling"} => EarliestFailingGate = "none"
        /\ gw.pc /= "raised"

\* the entries of fsLog before position j that concern the same file
SameFileBefore(j) ==
    {i \in 1..(j - 1) : fsLog[i].dir = fsLog[j].dir /\ fsLog[i].name = fsLog[j].name}

Max(S) == CHOOSE x \in S : \A y \in S : y <= x

\* entry j deletes or overwrites a file that another invocation created
Interferes(j) ==
    LET before == SameFileBefore(j)
        creates == {i \in before : fsLog[i].op = "create"}
    IN  IF fsLog[j].op = "delete"
        THEN creates /= {} /\ fsLog[Max(creates)].inv /= fsLog[j].inv
        ELSE /\ before /= {}
             /\ fsLog[Max(before)].op = "create"
             /\ fsLog[Max(before)].inv /= fsLog[j].inv

\* C18: the artifacts of an invocation have names of its own: no
\* invocation overwrites or deletes a file that another invocation created,
\* two concurrent plans in one directory included.
C18_ArtifactsUnique == \A j \in DOMAIN fsLog : ~Interferes(j)


\* ---- C19 ----
ConcIds == {"i1", "i2"}

\* the workspace directory an invocation was given
OwnDir(r) == resolve(inv[r].path, links)

DistinctDirs == OwnDir("i1") /= OwnDir("i2")

\* the child of r has written its plan file
OwnPlanWritten(r) ==
    \E i \in DOMAIN fsLog : fsLog[i] = FsOp(r, "create", OwnDir(r), "tfplan")

\* what r returns when it runs alone and its own children behave as they did:
\* only the files r's own child wrote are there to be found
AloneResponse(r) ==
    LET resp == Response(inv[r].action, inv[r].exit_code = 0, inv[r].exit_code,
                         inv[r].stdout, "child stderr")
    IN  IF inv[r].child = "killed"
        THEN Response(inv[r].action, FALSE, -1, inv[r].stdout, "Operation timed out")
        ELSE IF inv[r].action /= "plan"
        THEN finish_response(resp)
        ELSE IF ~OwnPlanWritten(r) \/ inv[r].show = "oserror"
        THEN WithPlan(resp, plan_enrichment(NoPlanData, resp.stdout))
        ELSE WithPlan(resp, plan_enrichment(
                 parse_plan_output(TRUE, inv[r].show, inv[r].show_doc), resp.stdout))

\* C19: when the two concurrent invocations work in distinct directories,
\* under every interleaving each one creates and deletes files in its own
\* directory only, and what it returns is what it returns when run alone
\* with the same behaviour of its own children.
C19_DistinctDirsIndependent ==
    DistinctDirs =>
        /\ \A i \in DOMAIN fsLog : fsLog[i].dir = OwnDir(fsLog[i].inv)
        /\ \A r \in ConcIds :
              (inv[r].pc = "returned" /\ inv[r].child /= "none")
                  => inv[r].response = AloneResponse(r)

\* two plans in distinct directories have both come back, each after its
\* own plan file was written, shown and deleted
C19_Witness ==
    /\ DistinctDirs
    /\ \A r \in ConcIds :
          /\ inv[r].pc = "returned"
          /\ inv[r].action = "plan"
          /\ inv[r].show = "ok"
          /\ OwnPlanWritten(r)
          /\ \E i \in DOMAIN fsLog : fsLog[i] = FsOp(r, "delete", OwnDir(r), "tfplan")


\* ---- C20 ----
Cancelled(r) == inv[r].error \in {"KeyboardInterrupt", "CancelledError"}

\* C20: an invocation cancelled while its child runs reaches its cleanup
\* only after the child was ended, and when the cancellation has left the
\* invocation no child of it runs and neither its variable file nor a plan
\* file is in its directory; for the synchronous and the asynchronous
\* executor.
C20_CancelEndsChildAndCleans ==
    \A r \in DOMAIN inv :
        Cancelled(r) =>
            /\ inv[r].pc \in {"finally", "raised"} => inv[r].child /= "running"
            /\ inv[r].pc = "raised" =>
                  fs[OwnDir(r)] \cap (TmpNames \cup {"tfplan"}) = {}


\* ---- C21 ----
\* C21: every invocation of an execution entry point eventually returns a
\* result, also when its child never terminates on its own.
C21_EventuallyReturns == <>(inv["i1"].pc = "returned")


\* ---- C22 ----
\* the eight allow-listed actions
AllowList == {"init", "validate", "fmt", "plan", "show", "graph", "providers", "version"}

\* C22: the allow-lists and the block-lists are disjoint, and a batch of
\* allow-listed actions is accepted by the policy check of the gateway, of
\* the executor and of the request schema: no policy rejection ("blocked",
\* "unknown") is returned for it.
C22_AllowListAccepted ==
    /\ ALLOWED_TERRAFORM_ACTIONS \cap BLOCKED_ACTIONS = {}
    /\ allowed_actions \cap disallowed_actions = {}
    /\ SCHEMA_ACTIONS \cap BLOCKED_ACTIONS = {}
    /\ AllowList \subseteq allowed_actions
    /\ AllowList \subseteq SCHEMA_ACTIONS
    /\ (gw.pc = "returned" /\ gw.ret.kind = "error" /\ ErrorGate(gw.ret.error) = "policy")
          => \E i \in DOMAIN gw.actions : gw.actions[i] \notin AllowList


\* ---- C23 ----
\* [A-Za-z0-9_-]+
IdentifierPattern(key) ==
    key /= <<>> /\ \A i \in DOMAIN key : key[i] \in AsciiAlnum \cup {"_", "-"}

\* every value is made of ASCII letters and digits: no check on values fails
CleanValues(tf_vars) ==
    \A k \in DOMAIN tf_vars : \A i \in DOMAIN tf_vars[k] : tf_vars[k][i] \in AsciiAlnum

\* C23: a variable key is accepted exactly when it matches [A-Za-z0-9_-]+,
\* and the key checks of the executor (build_var_args), of the gateway
\* (validate_terraform_vars) and of the request schema agree on every key.
C23_KeyVerdict ==
    (valFn \in {"validate_request", "validate_terraform_vars"}
        /\ valReq \in VarRequests /\ CleanValues(valReq.params["vars"]))
    => LET tf_vars == valReq.params["vars"]
       IN  /\ valRet.valid <=> \A k \in DOMAIN tf_vars : IdentifierPattern(k)
           /\ valRet.valid <=> ~build_var_args_raises(tf_vars)


\* ---- C24 ----
\* the call as the caller made it: the tool name and its arguments
CallerRequest ==
    Request(<<"terry">>,
            ("path" :> PathChars(gw.path)) @@ ("actions" :> gw.actions)
                @@ (IF gw.vars = EmptyVars THEN <<>> ELSE ("vars" :> gw.vars)),
            FALSE)

\* C24: a call whose tool is registered and whose arguments satisfy the
\* tool's schema, the security heuristics and the path check passes the
\* validate_request decorator: it is not answered "Validation failed".
C24_ValidCallPasses ==
    (/\ gw.server = "server_enhanced_with_lsp"
     /\ request_validator = "loaded"
     /\ validate_request(CallerRequest).valid
     /\ validate_safe_path(gw.path, links))
    => ~(gw.pc = "returned" /\ gw.ret.kind = "error" /\ gw.ret.error = "Validation failed")


\* ---- C25 ----
\* C25: the working directory the terry tool hands to the execution engine
\* is a canonical path inside the workspace root, for every caller path;
\* a scheme-prefixed reference is never itself used as a filesystem path.
C25_WorkdirCanonicalInside ==
    (gw.server \in {"server_mcp_only", "server_enhanced_with_lsp"}
        /\ gw.pc \in {"loop", "calling"})
    => /\ IsPrefix(resolve(WORKSPACE_ROOT, links), gw.full_path)
       /\ resolve(gw.full_path, links) = gw.full_path
       /\ HasScheme(gw.path) =>
             \A i \in DOMAIN gw.full_path : gw.full_path[i] /= gw.path.scheme \o ":"


\* ---- C26 ----
\* C26: run_terraform removes only artifacts the same invocation created:
\* every file it deletes was created by it (or by its child) before, so a
\* file that was in the directory before the call is still there after it.
C26_DeletesOnlyOwnArtifacts ==
    \A j \in DOMAIN fsLog :
        (fsLog[j].op = "delete" /\ inv[fsLog[j].inv].fn = "run_terraform")
        => \E i \in 1..(j - 1) :
              fsLog[i] = FsOp(fsLog[j].inv, "create", fsLog[j].dir, fsLog[j].name)


\* ---- C27 ----
ExecutorFns == {"TerraformExecutor.run_terraform", "TerraformExecutor.execute_terraform"}

\* C27: for every accepted binding (key, value) of a plan action the
\* argument vector built by the executor holds the element key=value with
\* the value exactly as the caller gave it.
C27_ValueVerbatim ==
    \A r \in DOMAIN inv :
        (inv[r].fn \in ExecutorFns /\ inv[r].action = "plan" /\ inv[r].cmd /= NoCmd)
        => \A k \in DOMAIN inv[r].vars :
              (k \o <<"=">> \o inv[r].vars[k]) \in inv[r].cmd.var_args


\* ---- C28 ----
\* C28: a tool of the enhanced server that takes a caller-supplied location
\* (path, file_path, workspace_path) touches the filesystem only at a
\* location whose canonical form lies inside the workspace root.
C28_ToolsStayInside ==
    toolCall.touched /= <<"none">>
        => IsPrefix(resolve(WORKSPACE_ROOT, links), toolCall.touched)

\* ---- C29 ----
\* C29: no tool body executes unless request validation returned valid for
\* that very call, also when the validator could not be loaded.
C29_NoBodyWithoutValidation ==
    /\ (gw.server = "server_enhanced_with_lsp" /\ gw.pc \in {"loop", "calling"})
          => /\ request_validator = "loaded"
             /\ validate_request(WrapperRequest("terry",
                    [path |-> gw.path, actions |-> gw.actions, vars |-> gw.vars])).valid
    /\ toolCall.pc = "body" => request_validator = "loaded"

\* ---- C30 ----
\* C30: a call of get_lsp_client with a workspace path that has returned
\* has returned a client that is initialized for that workspace, under every
\* interleaving of the calls; it never returns an uninitialized client.
C30_ReturnsInitializedClient ==
    \A c \in DOMAIN lspCalls :
        (lspCalls[c].pc = "returned" /\ lspCalls[c].ws /= "None")
        => /\ lspCalls[c].ret /= "None"
           /\ lspClients[lspCalls[c].ret].initialized
           /\ lspClients[lspCalls[c].ret].workspace = lspCalls[c].ws

====
